---- MODULE Spec2Model ----
(***************************************************************************)
(* A model of hancon, a converter from HWP v5 (OLE2) documents to ODT.     *)
(*                                                                         *)
(* Conventions.  A Rust byte slice is a sequence of naturals below 256; a   *)
(* Rust 0-based offset o addresses element o + 1.  A u32 is kept as the     *)
(* four bytes of its little-endian encoding (a "word"), least significant   *)
(* byte first, because values such as 0xFFFFFFFE or a CRC do not fit the    *)
(* integers of the model checker; WordNat gives the number of a word below  *)
(* 2^31.  usize is 64 bits wide (the host the crate's tests run on), so a   *)
(* sum of a buffer position and a u32 never wraps.  A string is a sequence  *)
(* of code points.  A HwpResult is Ok(v) or Err(kind, msg), msg being the   *)
(* parts of the message: its text, then the values formatted into it.       *)
(***************************************************************************)
EXTENDS Integers, Sequences, FiniteSets, TLC

VARIABLES
    rec_in,     \* record decoder: how the buffer under decoding was built
    rs,         \* RecordStream { data, pos }
    rs_ret,     \* <<>> before the first call of next_record, then <<what the
                \* last call returned>>
    rs_out,     \* the records yielded so far, in order
    rs_item,    \* <<>> before the first call of Iterator::next, then <<what
                \* the last call returned>>
    zip_in,     \* ZIP packager: the entries given to write_zip_stored
    zip_i,      \* the number of entries its loop has written
    zip_st,     \* its buffers out and central
    zip_ret,    \* <<>> while it runs, then <<the value it returned>>
    ole_in,     \* OLE2 container: how the file under reading was built
    ole,        \* <<>> before Ole2::parse, then <<what it returned>>
    ole_ls,     \* list_streams in progress: its result, queue and return
    ole_n,      \* the number of turns its loop has taken
    ole_call,   \* <<>>, then <<the last call of a reading method>>
    di_in,      \* DocInfo: the records of the stream given to parse_docinfo
    di_stream,  \* its RecordStream
    di_doc,     \* the document it fills
    di_seen,    \* the records its loop has dispatched, in order
    di_ret,     \* <<>> while it runs, then <<the value it returned>>
    wr_doc,     \* ODT writer: the document given to generate_odt
    wr_content, \* <<>>, then <<what generate_content_xml returned>>
    wr_styles,  \* <<>>, then <<what generate_styles_xml returned>>
    file_data,  \* conversion: the argument of validate_and_convert
    pc,         \* where the conversion stands
    run_format, \* <<>>, then <<the format detected>>
    run_doc,    \* <<>>, then <<the document parsed>>
    run_warnings, \* the warnings pushed so far
    run_result  \* <<>>, then <<the value validate_and_convert returns>>

rec_vars == <<rec_in, rs, rs_ret, rs_out, rs_item>>
zip_vars == <<zip_in, zip_i, zip_st, zip_ret>>
ole_vars == <<ole_in, ole, ole_ls, ole_n, ole_call>>
di_vars == <<di_in, di_stream, di_doc, di_seen, di_ret>>
wr_vars == <<wr_doc, wr_content, wr_styles>>
run_vars == <<file_data, pc, run_format, run_doc, run_warnings, run_result>>
vars == <<rec_vars, zip_vars, ole_vars, di_vars, wr_vars, run_vars>>

\* What the actions of one component leave alone.
rec_others == <<zip_vars, ole_vars, di_vars, wr_vars, run_vars>>
zip_others == <<rec_vars, ole_vars, di_vars, wr_vars, run_vars>>
ole_others == <<rec_vars, zip_vars, di_vars, wr_vars, run_vars>>
di_others == <<rec_vars, zip_vars, ole_vars, wr_vars, run_vars>>
wr_others == <<rec_vars, zip_vars, ole_vars, di_vars, run_vars>>
run_others == <<rec_vars, zip_vars, ole_vars, di_vars, wr_vars>>

----------------------------------------------------------------------------
(* Results, options, words *)

Ok(v) == [ok |-> TRUE, val |-> v]
Err(k, m) == [ok |-> FALSE, kind |-> k, msg |-> m]
None == <<>>

U16(n) == <<n % 256, (n \div 256) % 256>>
U32(n) == <<n % 256, (n \div 256) % 256, (n \div 65536) % 256, (n \div 16777216) % 256>>
IsBig(w) == w[4] >= 128
WordNat(w) == w[1] + 256 * w[2] + 65536 * w[3] + 16777216 * w[4]

Slice(data, from, to) == SubSeq(data, from + 1, to)

\* Sequences of bytes: n zeros, b followed by zeros up to n bytes, and the
\* concatenation of a sequence of sequences.
Zeros(n) == [i \in 1..n |-> 0]
Pad(b, n) == b \o Zeros(n - Len(b))

RECURSIVE FlattenRange(_, _, _)
FlattenRange(ss, lo, hi) ==
    IF lo > hi THEN <<>>
    ELSE IF lo = hi THEN ss[lo]
    ELSE FlattenRange(ss, lo, (lo + hi) \div 2)
         \o FlattenRange(ss, (lo + hi) \div 2 + 1, hi)

Flatten(ss) == FlattenRange(ss, 1, Len(ss))

\* F applied to the value of x: x is evaluated in full before F starts, as
\* a `let` binding is before the statements after it.
With(x, F(_)) == CHOOSE r \in {F(v) : v \in {x}} : TRUE

----------------------------------------------------------------------------
(* common/mod.rs: byte primitives *)

read_u8(data, offset) ==
    IF offset < Len(data) THEN data[offset + 1] ELSE None

read_u16_le(data, offset) ==
    IF offset + 2 <= Len(data)
    THEN data[offset + 1] + 256 * data[offset + 2]
    ELSE None

read_u32_le(data, offset) ==
    IF offset + 4 <= Len(data)
    THEN <<data[offset + 1], data[offset + 2], data[offset + 3], data[offset + 4]>>
    ELSE None

check_signature(data, offset, sig) ==
    IF offset + Len(sig) > Len(data)
    THEN FALSE
    ELSE Slice(data, offset, offset + Len(sig)) = sig

----------------------------------------------------------------------------
(* parser/record.rs: the record decoder *)

\* header_u32 & 0x3FF, (header_u32 >> 10) & 0x3FF, (header_u32 >> 20) & 0xFFF,
\* computed on the bytes of the word.
TagOf(w) == (w[1] + 256 * w[2]) % 1024
LevelOf(w) == ((w[2] \div 4) + 64 * w[3]) % 1024
SizeBitsOf(w) == (w[3] \div 16) + 16 * w[4]

\* A header decoder that counts 4 header bytes also for an extended size.
RecordHeader_parse_ShortHeader(data) ==
    IF Len(data) < 4
    THEN Err("ParseError", <<"Record header must be at least 4 bytes">>)
    ELSE IF SizeBitsOf(read_u32_le(data, 0)) = 4095
    THEN IF Len(data) < 8
         THEN Err("ParseError", <<"Extended record size requires 8 bytes">>)
         ELSE Ok([tagid |-> TagOf(read_u32_le(data, 0)),
                  level |-> LevelOf(read_u32_le(data, 0)),
                  size |-> read_u32_le(data, 4), bytes_read |-> 4])
    ELSE Ok([tagid |-> TagOf(read_u32_le(data, 0)),
             level |-> LevelOf(read_u32_le(data, 0)),
             size |-> U32(SizeBitsOf(read_u32_le(data, 0))), bytes_read |-> 4])

RecordHeader_parse(data) ==
    IF Len(data) < 4
    THEN Err("ParseError", <<"Record header must be at least 4 bytes">>)
    ELSE LET header_u32 == read_u32_le(data, 0)
             tagid == TagOf(header_u32)
             level == LevelOf(header_u32)
             size_bits == SizeBitsOf(header_u32)
         IN  IF size_bits = 4095
             THEN IF Len(data) < 8
                  THEN Err("ParseError", <<"Extended record size requires 8 bytes">>)
                  ELSE Ok([tagid |-> tagid, level |-> level,
                           size |-> read_u32_le(data, 4), bytes_read |-> 8])
             ELSE Ok([tagid |-> tagid, level |-> level,
                      size |-> U32(size_bits), bytes_read |-> 4])

format_tagname(tagid) ==
    CASE tagid = 0 -> "HWP_ID"
      [] tagid = 3 -> "HWPTAG_PARA_TEXT"
      [] tagid = 4 -> "HWPTAG_PARA_CHAR_SHAPE"
      [] tagid = 5 -> "HWPTAG_PARA_LINE_SEG"
      [] tagid = 6 -> "HWPTAG_PARA_RANGE_TAG"
      [] tagid = 7 -> "HWPTAG_CTRL_HEADER"
      [] tagid = 9 -> "HWPTAG_LIST_HEADER"
      [] tagid = 10 -> "HWPTAG_TABLE_CELL"
      [] tagid = 11 -> "HWPTAG_SECTION_DEF"
      [] tagid = 16 -> "HWPTAG_DOC_INFO"
      [] tagid = 17 -> "HWPTAG_ID_MAPPINGS"
      [] tagid = 18 -> "HWPTAG_BIN_DATA"
      [] tagid = 19 -> "HWPTAG_FACE_NAME"
      [] tagid = 20 -> "HWPTAG_BORDER_FILL"
      [] tagid = 21 -> "HWPTAG_CHAR_SHAPE"
      [] tagid = 22 -> "HWPTAG_TAB_DEF"
      [] tagid = 23 -> "HWPTAG_NUMBERING"
      [] tagid = 24 -> "HWPTAG_BULLET"
      [] tagid = 25 -> "HWPTAG_PARA_SHAPE"
      [] tagid = 26 -> "HWPTAG_STYLE"
      [] tagid = 27 -> "HWPTAG_DOC_DATA"
      [] tagid = 28 -> "HWPTAG_DISTRIBUTE_DOC_DATA"
      [] tagid = 29 -> "HWPTAG_RESERVED"
      [] tagid = 30 -> "HWPTAG_COMPATIBLE_DOC_DATA"
      [] tagid = 31 -> "HWPTAG_LAYOUT_COMPATIBILITY"
      [] tagid = 50 -> "HWPTAG_PARAGRAPH"
      [] tagid = 51 -> "HWPTAG_PARA_TEXT"
      [] tagid = 52 -> "HWPTAG_PARA_CHAR_SHAPE"
      [] tagid = 53 -> "HWPTAG_PARA_LINE_SEG"
      [] tagid = 54 -> "HWPTAG_PARA_RANGE_TAG"
      [] tagid = 61 -> "HWPTAG_TABLE"
      [] tagid = 62 -> "HWPTAG_SHAPE_COMPONENT_RECT"
      [] tagid = 63 -> "HWPTAG_SHAPE_COMPONENT_ELLIPSE"
      [] tagid = 64 -> "HWPTAG_SHAPE_COMPONENT_ARC"
      [] tagid = 65 -> "HWPTAG_SHAPE_COMPONENT_POLYGON"
      [] tagid = 66 -> "HWPTAG_SHAPE_COMPONENT_CURVE"
      [] tagid = 67 -> "HWPTAG_SHAPE_COMPONENT_OLE"
      [] tagid = 68 -> "HWPTAG_SHAPE_COMPONENT_PICTURE"
      [] tagid = 69 -> "HWPTAG_SHAPE_COMPONENT_CONTAINER"
      [] tagid = 70 -> "HWPTAG_CTRL_DATA"
      [] tagid = 71 -> "HWPTAG_EQEDIT"
      [] tagid = 72 -> "HWPTAG_SHAPE_COMPONENT_TEXTBOX"
      [] OTHER -> "HWPTAG_" \o ToString(tagid)

\* A payload check that refuses a record ending exactly at the buffer end.
PayloadOutOfBounds_OffByOne(s, header_size, size) ==
    IsBig(size) \/ s.pos + header_size + WordNat(size) >= Len(s.data)

\* self.pos + header_size + header.size as usize > self.data.len(): the sum
\* does not wrap in 64 bits, and a size of 2^31 or more exceeds every buffer
\* of the model.
PayloadOutOfBounds(s, header_size, size) ==
    IsBig(size) \/ s.pos + header_size + WordNat(size) > Len(s.data)

\* An end test that drops a tail too short to hold a header.
StreamExhausted_DropsTail(s) == s.pos + 4 > Len(s.data)

StreamExhausted(s) == s.pos >= Len(s.data)

\* A decoder that gives a broken record up: the error moves the position to
\* the end of the buffer.
RecordStream_next_record_GivesUp(s) ==
    IF StreamExhausted(s)
    THEN [ret |-> Ok(None), stream |-> s]
    ELSE [ret |-> Err("ParseError", <<"Record payload out of bounds", s.pos, 4, U32(0)>>),
          stream |-> [s EXCEPT !.pos = Len(s.data)]]

\* next_record as a function of the stream: the value returned and the
\* stream after the call.

RecordStream_next_record(s) ==
    IF StreamExhausted(s)
    THEN [ret |-> Ok(None), stream |-> s]
    ELSE LET parsed == RecordHeader_parse(Slice(s.data, s.pos, Len(s.data)))
         IN  IF ~parsed.ok
             THEN [ret |-> parsed, stream |-> s]
             ELSE LET header == parsed.val
                      header_size == header.bytes_read
                  IN  IF PayloadOutOfBounds(s, header_size, header.size)
                      THEN [ret |-> Err("ParseError",
                                        <<"Record payload out of bounds", s.pos,
                                          header_size, header.size>>),
                            stream |-> s]
                      ELSE LET payload_start == s.pos + header_size
                               payload_end == payload_start + WordNat(header.size)
                           IN  [ret |-> Ok([tagid |-> header.tagid,
                                            tagname |-> format_tagname(header.tagid),
                                            level |-> header.level,
                                            size |-> header.size,
                                            payload |-> Slice(s.data, payload_start,
                                                              payload_end)]),
                                stream |-> [s EXCEPT !.pos = payload_end]]

RecordStream_new(data) == [data |-> data, pos |-> 0]

\* impl Iterator for RecordStream: the item next makes of what next_record
\* returned; None is the end of the iteration, every other item is Some.
Iterator_next(ret) ==
    IF ret.ok /\ ret.val = None THEN None ELSE ret
remaining(s) == Len(s.data) - s.pos
position(s) == s.pos

----------------------------------------------------------------------------
(* Text literals as bytes *)

\* The printable ASCII characters in code order from 32; "?" stands at the
\* place of the grave accent (96), which no literal of the program contains.
Printable ==
    " !\"#$%&'()*+,-./0123456789:;<=>?@ABCDEFGHIJKLMNOPQRSTUVWXYZ[\\]^_?abcdefghijklmnopqrstuvwxyz{|}~"

CodeOf(c) ==
    IF c = "\n" THEN 10 ELSE 31 + CHOOSE i \in 1..95 : SubSeq(Printable, i, i) = c

\* str::as_bytes of an ASCII literal
Bytes(s) == [i \in 1..Len(s) |-> CodeOf(SubSeq(s, i, i))]

----------------------------------------------------------------------------
(* writer/zip_utils.rs: the ZIP packager *)

\* A u32 as its 32 bits, least significant first.
WordBits(w) ==
    SubSeq([i \in 1..32 |-> (w[((i - 1) \div 8) + 1] \div 2^((i - 1) % 8)) % 2], 1, 32)

BitsByte(b, k) ==
    b[8 * k + 1] + 2 * b[8 * k + 2] + 4 * b[8 * k + 3] + 8 * b[8 * k + 4]
    + 16 * b[8 * k + 5] + 32 * b[8 * k + 6] + 64 * b[8 * k + 7] + 128 * b[8 * k + 8]

BitsWord(b) == <<BitsByte(b, 0), BitsByte(b, 1), BitsByte(b, 2), BitsByte(b, 3)>>

XorBits(a, b) == SubSeq([i \in 1..32 |-> (a[i] + b[i]) % 2], 1, 32)

\* 0xEDB8_8320
CrcPoly == WordBits(<<32, 131, 184, 237>>)
\* 0xFFFF_FFFF
CrcInit == WordBits(<<255, 255, 255, 255>>)
ZeroBits == WordBits(<<0, 0, 0, 0>>)

\* mask = (crc & 1).wrapping_neg() & 0xEDB8_8320; crc = (crc >> 1) ^ mask
CrcRound(crc) ==
    LET mask == IF crc[1] = 1 THEN CrcPoly ELSE ZeroBits
    IN  XorBits(Tail(crc) \o <<0>>, mask)

\* The values of a u32 as bits.
Bits32 == [1..32 -> {0, 1}]

\* crc ^= byte as u32, then the eight rounds of the inner loop; each round
\* is applied to the value the round before it left.
CrcByte(crc, byte) ==
    LET Round == [c \in Bits32 |-> CrcRound(c)]
    IN  Round[Round[Round[Round[Round[Round[Round[Round[
            XorBits(crc, WordBits(<<byte, 0, 0, 0>>))]]]]]]]]

\* The loop over data[lo..hi], split in halves to bound the evaluation depth.
CrcFold(data, lo, hi, crc) ==
    LET Fold[l \in Nat, h \in Nat, c \in Bits32] ==
            IF l > h THEN c
            ELSE IF l = h THEN CrcByte(c, data[l])
            ELSE Fold[(l + h) \div 2 + 1, h, Fold[l, (l + h) \div 2, c]]
    IN  Fold[lo, hi, crc]

\* A checksum that forgets the final complement.
crc32_NoFinalNot(data) == BitsWord(CrcFold(data, 1, Len(data), CrcInit))

crc32(data) == BitsWord(XorBits(CrcFold(data, 1, Len(data), CrcInit), CrcInit))

push_u16_le(buf, value) == buf \o U16(value)
push_u32_le(buf, value) == buf \o value

LocalSig == 67324752
CentralSig == 33639248
EocdSig == 101010256
ZipVersion == 20

\* A run of push calls onto buf, in order.
PushAll(buf, fields) == buf \o Flatten(fields)

\* The local file header of an entry, then its name and data.
WriteLocal(out, name_bytes, data, crc, size) ==
    PushAll(out,
        << U32(LocalSig),
           U16(ZipVersion),        \* version needed
           U16(0),                 \* flags
           U16(0),                 \* method: stored
           U16(0),                 \* mtime
           U16(0),                 \* mdate
           crc, size, size,
           U16(Len(name_bytes)),   \* name_bytes.len() as u16
           U16(0),                 \* extra length
           name_bytes, data >>)

\* A central header that records the offset past the local header it names.
WriteCentral_OffsetAfter(central, name_bytes, crc, size, offset) ==
    PushAll(central,
        << U32(CentralSig), U16(ZipVersion), U16(ZipVersion), U16(0), U16(0), U16(0),
           U16(0), crc, size, size, U16(Len(name_bytes)), U16(0), U16(0), U16(0),
           U16(0), U32(0), U32(WordNat(offset) + 30), name_bytes >>)

\* The central directory header of an entry.
WriteCentral(central, name_bytes, crc, size, offset) ==
    PushAll(central,
        << U32(CentralSig),
           U16(ZipVersion),        \* version made by
           U16(ZipVersion),        \* version needed
           U16(0),                 \* flags
           U16(0),                 \* method
           U16(0),                 \* mtime
           U16(0),                 \* mdate
           crc, size, size,
           U16(Len(name_bytes)),
           U16(0),                 \* extra length
           U16(0),                 \* comment length
           U16(0),                 \* disk number
           U16(0),                 \* internal attrs
           U32(0),                 \* external attrs
           offset,
           name_bytes >>)

\* One iteration of the loop over entries; an entry is <<name, data>>.
ZipEntry(st, entry) ==
    LET name_bytes == entry[1]
        data == entry[2]
        offset == U32(Len(st.out))     \* out.len() as u32
        size == U32(Len(data))         \* data.len() as u32
        crc == crc32(data)
    IN  [out |-> WriteLocal(st.out, name_bytes, data, crc, size),
         central |-> WriteCentral(st.central, name_bytes, crc, size, offset)]

\* An end record that counts one entry too few.
ZipEnd_CountShort(st, n) ==
    PushAll(st.out \o st.central,
        << U32(EocdSig), U16(0), U16(0), U16(n - 1), U16(n - 1),
           U32(Len(st.central)), U32(Len(st.out)), U16(0) >>)

\* After the loop: the central directory, then the end record.
ZipEnd(st, n) ==
    LET central_offset == U32(Len(st.out))
        central_size == U32(Len(st.central))
    IN  PushAll(st.out \o st.central,
            << U32(EocdSig),
               U16(0),             \* disk number
               U16(0),             \* central start disk
               U16(n),             \* entries.len() as u16
               U16(n),
               central_size,
               central_offset,
               U16(0) >>)          \* comment length

ZipStart == [out |-> <<>>, central |-> <<>>]

\* The state after an iteration is a value before the next iteration starts.
RECURSIVE ZipLoop(_, _, _)
ZipLoop(st, entries, i) ==
    IF i > Len(entries) THEN st
    ELSE With(ZipEntry(st, entries[i]), LAMBDA next : ZipLoop(next, entries, i + 1))

write_zip_stored(entries) == Ok(ZipEnd(ZipLoop(ZipStart, entries, 1), Len(entries)))

----------------------------------------------------------------------------
(* parser/ole2.rs: the OLE2 container *)

Ole2Signature == <<208, 207, 17, 224, 161, 177, 26, 225>>
EndOfChain == <<254, 255, 255, 255>>
NoEntry == <<255, 255, 255, 255>>

\* An abnormal end of the call (a Rust panic), and a call that never returns.
Panic(m) == [ok |-> FALSE, kind |-> "panic", msg |-> <<m>>]
NeverReturns == [ok |-> FALSE, kind |-> "never returns", msg |-> <<>>]

\* u32 and usize arithmetic on words, by 16-bit halves.
Lo(w) == w[1] + 256 * w[2]
Hi(w) == w[3] + 256 * w[4]
Halves(hi, lo) == <<lo % 256, lo \div 256, hi % 256, hi \div 256>>
WordDiv(w, d) == Halves(Hi(w) \div d, ((Hi(w) % d) * 65536 + Lo(w)) \div d)
WordMod(w, d) == ((Hi(w) % d) * 65536 + Lo(w)) % d
WordAdd(a, b) ==
    LET lo == Lo(a) + Lo(b)
        hi == Hi(a) + Hi(b) + lo \div 65536
    IN  [overflow |-> hi >= 65536, word |-> Halves(hi % 65536, lo % 65536)]

\* The position, width and error text of each read that `?` guards, in the
\* order of the code; FirstUnreadable is the first that returns None, or 0.
HeaderReads ==
    << <<24, 2, "Cannot read minor version">>,
       <<26, 2, "Cannot read major version">>,
       <<28, 2, "Cannot read byte order">>,
       <<30, 2, "Cannot read sector size power">>,
       <<32, 2, "Cannot read mini sector size power">>,
       <<48, 4, "Cannot read num sectors">>,
       <<44, 4, "Cannot read num FAT sectors">>,
       <<52, 4, "Cannot read first dir sector">>,
       <<60, 4, "Cannot read first minifat sector">>,
       <<64, 4, "Cannot read num minifat sectors">> >>

FirstUnreadable(data, reads) ==
    LET bad == {i \in 1..Len(reads) : reads[i][1] + reads[i][2] > Len(data)}
    IN  IF bad = {} THEN 0 ELSE CHOOSE i \in bad : \A j \in bad : i <= j

\* for i in 0..109 { read_u32_le(data, 0x4C + i * 4) or break }
ReadFat(data) ==
    LET n == Cardinality({i \in 0..108 : read_u32_le(data, 76 + i * 4) # None})
    IN  SubSeq([i \in 1..n |-> read_u32_le(data, 76 + (i - 1) * 4)], 1, n)

Ole2Header_fields(data) ==
    [signature |-> Slice(data, 0, 8),
     minor_version |-> read_u16_le(data, 24),
     major_version |-> read_u16_le(data, 26),
     byte_order |-> read_u16_le(data, 28),
     sector_size_power |-> read_u16_le(data, 30),
     mini_sector_size_power |-> read_u16_le(data, 32),
     num_sectors |-> read_u32_le(data, 48),
     num_fat_sectors |-> read_u32_le(data, 44),
     first_dir_sector |-> read_u32_le(data, 52),
     first_minifat_sector |-> read_u32_le(data, 60),
     num_minifat_sectors |-> read_u32_le(data, 64),
     fat |-> ReadFat(data)]

Ole2Header_parse_SignatureFirst(data) ==
    IF ~check_signature(data, 0, Ole2Signature)
    THEN Err("InvalidSignature", <<>>)
    ELSE IF Len(data) < 512
    THEN Err("InvalidFormat", <<"OLE2 header must be at least 512 bytes">>)
    ELSE Ok(Ole2Header_fields(data))

Ole2Header_parse(data) ==
    IF Len(data) < 512
    THEN Err("InvalidFormat", <<"OLE2 header must be at least 512 bytes">>)
    ELSE IF ~check_signature(data, 0, Ole2Signature)
    THEN Err("InvalidSignature", <<>>)
    ELSE LET miss == FirstUnreadable(data, HeaderReads)
         IN  IF miss # 0
             THEN Err("ParseError", <<HeaderReads[miss][3]>>)
             ELSE Ok(Ole2Header_fields(data))

sector_size(header) == 2^(header.sector_size_power)

\* String::from_utf16_lossy: a surrogate pair is one code point, a surrogate
\* outside a pair is U+FFFD.  A unit is the second of a pair exactly when it
\* is a low surrogate that follows a high one, since no high surrogate is
\* itself the second of a pair.
HighSurrogate(c) == c >= 55296 /\ c <= 56319
LowSurrogate(c) == c >= 56320 /\ c <= 57343

from_utf16_lossy(u) ==
    Flatten([i \in 1..Len(u) |->
        IF ~HighSurrogate(u[i]) /\ ~LowSurrogate(u[i]) THEN <<u[i]>>
        ELSE IF HighSurrogate(u[i]) /\ i < Len(u) /\ LowSurrogate(u[i + 1])
        THEN <<65536 + (u[i] - 55296) * 1024 + (u[i + 1] - 56320)>>
        ELSE IF LowSurrogate(u[i]) /\ i > 1 /\ HighSurrogate(u[i - 1])
        THEN <<>>
        ELSE <<65533>>])

\* A decoder that reads one code unit for every two bytes begun.
NameUnits_Begun(name_bytes, name_len) ==
    [k \in 1..((name_len + 1) \div 2) |-> name_bytes[2 * k - 1] + 256 * name_bytes[2 * k]]

\* (0..name_len - 1).step_by(2) mapped to the code unit at i, i + 1; a failed
\* get makes the whole collection empty.
NameUnits(name_bytes, name_len) ==
    LET idx == {i \in 0..(name_len - 2) : i % 2 = 0}
        n == Cardinality(idx)
    IN  IF \E i \in idx : i + 1 >= Len(name_bytes)
        THEN <<>>
        ELSE SubSeq([k \in 1..n |-> name_bytes[2 * k - 1] + 256 * name_bytes[2 * k]], 1, n)

DirEntryReads ==
    << <<66, 1, "Cannot read entry type">>,
       <<67, 1, "Cannot read color">>,
       <<68, 4, "Cannot read left sibling">>,
       <<72, 4, "Cannot read right sibling">>,
       <<76, 4, "Cannot read child">>,
       <<116, 4, "Cannot read start sector">>,
       <<120, 4, "Cannot read stream size">> >>

DirEntry_parse(data) ==
    IF Len(data) < 64
    THEN Err("ParseError", <<"DirEntry must be 64 bytes">>)
    ELSE LET name_bytes == Slice(data, 0, 64)
             \* read_u16_le(data, 64).unwrap_or(0)
             name_len == IF 64 + 2 <= Len(data) THEN read_u16_le(data, 64) ELSE 0
             name == IF name_len > 0 /\ name_len <= 32
                     THEN from_utf16_lossy(NameUnits(name_bytes, name_len))
                     ELSE <<>>
             miss == FirstUnreadable(data, DirEntryReads)
         IN  IF miss # 0
             THEN Err("ParseError", <<DirEntryReads[miss][3]>>)
             ELSE Ok([name |-> name,
                      name_len |-> name_len,
                      entry_type |-> read_u8(data, 66),
                      color |-> read_u8(data, 67),
                      left_sibling |-> read_u32_le(data, 68),
                      right_sibling |-> read_u32_le(data, 72),
                      child |-> read_u32_le(data, 76),
                      start_sector |-> read_u32_le(data, 116),
                      stream_size |-> read_u32_le(data, 120)])

Ole2_parse(data) ==
    LET header == Ole2Header_parse(data)
    IN  IF header.ok THEN Ok([header |-> header.val, data |-> data]) ELSE header

\* usize::MAX, the cap get_stream passes: above every count of the model.
UsizeMax == 2147483647

\* A sector id of 65536 or more lies outside every buffer of the model
\* (offset + sector_size > data.len() for buffers below 64 KiB).
SectorOutside(self, sector_id) ==
    \/ Hi(sector_id) # 0
    \/ 512 + Lo(sector_id) * sector_size(self.header) + sector_size(self.header)
           > Len(self.data)

\* The while loop of read_fat_chain; seen is the set of the sectors appended
\* so far (it does not exist in the code).  Without a cap, a walk that comes
\* to a sector it has appended before repeats from there for ever.
RECURSIVE FatWalk(_, _, _, _, _, _)

\* A walk that leaves out the sector it finds no FAT entry for.
FatWalk_DropsLast(self, sector_id, max_sectors, result, count, seen) ==
    IF sector_id = EndOfChain \/ count >= max_sectors
    THEN Ok(result)
    ELSE IF max_sectors = UsizeMax /\ sector_id \in seen
    THEN NeverReturns
    ELSE IF SectorOutside(self, sector_id)
    THEN Ok(result)
    ELSE IF Hi(sector_id) = 0 /\ Lo(sector_id) < Len(self.header.fat)
    THEN FatWalk(self, self.header.fat[Lo(sector_id) + 1], max_sectors,
                 result \o Slice(self.data,
                                 512 + Lo(sector_id) * sector_size(self.header),
                                 512 + Lo(sector_id) * sector_size(self.header)
                                     + sector_size(self.header)),
                 count + 1, seen \cup {sector_id})
    ELSE Ok(result)

FatWalk(self, sector_id, max_sectors, result, count, seen) ==
    IF sector_id = EndOfChain \/ count >= max_sectors
    THEN Ok(result)
    ELSE IF max_sectors = UsizeMax /\ sector_id \in seen
    THEN NeverReturns
    ELSE IF SectorOutside(self, sector_id)
    THEN Ok(result)
    ELSE LET offset == 512 + Lo(sector_id) * sector_size(self.header)
             longer == result \o Slice(self.data, offset, offset + sector_size(self.header))
         IN  IF Hi(sector_id) = 0 /\ Lo(sector_id) < Len(self.header.fat)
             THEN FatWalk(self, self.header.fat[Lo(sector_id) + 1], max_sectors,
                          longer, count + 1, seen \cup {sector_id})
             ELSE Ok(longer)

read_fat_chain(self, sector_id, max_sectors) ==
    FatWalk(self, sector_id, max_sectors, <<>>, 0, {})

read_dir_entry(self, entry_id) ==
    LET entries_per_sector == sector_size(self.header) \div 128
    IN  IF entries_per_sector = 0
        THEN Panic("attempt to divide by zero")
        ELSE LET sector_id == WordAdd(self.header.first_dir_sector,
                                      WordDiv(entry_id, entries_per_sector))
                 entry_offset == WordMod(entry_id, entries_per_sector) * 128
                 sector_data == read_fat_chain(self, sector_id.word, 1)
             IN  IF sector_id.overflow
                 THEN Panic("attempt to add with overflow")
                 ELSE IF ~sector_data.ok
                 THEN sector_data
                 ELSE IF entry_offset + 128 > Len(sector_data.val)
                 THEN Err("ParseError", <<"Invalid directory entry offset">>)
                 ELSE DirEntry_parse(Slice(sector_data.val, entry_offset,
                                           entry_offset + 128))

\* list_streams keeps result and queue; ret is <<>> while its loop runs and
\* <<the value returned>> after.  Each queue item is <<path, entry_id,
\* trail>>: path and entry_id are the code's, trail is the set of the entry
\* ids the item was reached through (it does not exist in the code).
ListStart ==
    [result |-> <<>>, queue |-> << <<<<>>, U32(0), {}>> >>, ret |-> <<>>]

PushIf(queue, cond, item) == IF cond THEN Append(queue, item) ELSE queue

\* The loop body from `let entry = self.read_dir_entry(entry_id)?` on: read
\* is the value of the call, popped the queue after the pop.
ListVisit(st, popped, path, trail, read) ==
    IF ~read.ok
    THEN [st EXCEPT !.queue = popped, !.ret = <<read>>]
    ELSE LET entry == read.val
             current_path == IF path = <<>> THEN entry.name
                             ELSE path \o <<47>> \o entry.name
             found == IF entry.entry_type = 2
                      THEN Append(st.result, <<current_path, entry>>)
                      ELSE st.result
             q1 == PushIf(popped,
                          /\ entry.entry_type # 2
                          /\ entry.entry_type \in {1, 5}
                          /\ entry.child # NoEntry,
                          <<current_path, entry.child, trail>>)
             q2 == PushIf(q1, entry.right_sibling # NoEntry,
                          <<path, entry.right_sibling, trail>>)
             q3 == PushIf(q2, entry.left_sibling # NoEntry,
                          <<path, entry.left_sibling, trail>>)
         IN  [st EXCEPT !.result = found, !.queue = q3]

\* One evaluation of `while let Some((path, entry_id)) = queue.pop()` and of
\* the loop body.
ListStep(self, st) ==
    IF st.queue = <<>>
    THEN [st EXCEPT !.ret = <<Ok(st.result)>>]
    ELSE LET item == st.queue[Len(st.queue)]
         IN  ListVisit(st, SubSeq(st.queue, 1, Len(st.queue) - 1), item[1],
                       item[3] \cup {item[2]}, read_dir_entry(self, item[2]))

\* The loop pops an entry that was reached through itself: the pointers form
\* a cycle and the loop pushes without end.
Cycling(st) ==
    /\ st.ret = <<>>
    /\ st.queue # <<>>
    /\ st.queue[Len(st.queue)][2] \in st.queue[Len(st.queue)][3]

RECURSIVE ListRun(_, _)
ListRun(self, st) ==
    IF st.ret # <<>> THEN st.ret[1]
    ELSE IF Cycling(st) THEN NeverReturns
    ELSE With(ListStep(self, st), LAMBDA next : ListRun(self, next))

list_streams(self) == ListRun(self, ListStart)

\* get_stream from the `?` on: streams is the value of list_streams.
StreamNamed(self, name, streams) ==
    IF ~streams.ok
    THEN streams
    ELSE LET hits == {i \in 1..Len(streams.val) : streams.val[i][1] = name}
         IN  IF hits # {}
             THEN LET first == CHOOSE i \in hits : \A j \in hits : i <= j
                  IN  read_fat_chain(self, streams.val[first][2].start_sector,
                                     UsizeMax)
             ELSE Err("NotFound", <<"Stream '{}' not found", name>>)

get_stream(self, name) == StreamNamed(self, name, list_streams(self))

----------------------------------------------------------------------------
(* common/types.rs, model/mod.rs: values and their formatting.  A String is *)
(* a sequence of code points; into_bytes is its UTF-8 encoding.             *)

\* Display of an unsigned integer
RECURSIVE Dec(_)
Dec(n) == IF n < 10 THEN <<48 + n>> ELSE Dec(n \div 10) \o <<48 + (n % 10)>>

HexDigit(d) == IF d < 10 THEN 48 + d ELSE 55 + d

RECURSIVE Hex(_)
Hex(n) == IF n < 16 THEN <<HexDigit(n)>> ELSE Hex(n \div 16) \o <<HexDigit(n % 16)>>

\* format!("#{:06X}", self.0)
to_hex(color) ==
    <<35>> \o [i \in 1..(6 - Len(Hex(color))) |-> 48] \o Hex(color)

\* Display of (self.0 as f64) / 20.0, a whole number of twentieths: the
\* digits of the quotient, then the hundredths without a trailing zero.
to_pt_display(unit) ==
    LET n == IF unit < 0 THEN 0 - unit ELSE unit
        hundredths == 5 * (n % 20)
    IN  (IF unit < 0 THEN <<45>> ELSE <<>>)
        \o Dec(n \div 20)
        \o (IF hundredths = 0 THEN <<>>
            ELSE IF hundredths % 10 = 0 THEN <<46>> \o Dec(hundredths \div 10)
            ELSE <<46, 48 + (hundredths \div 10), 48 + (hundredths % 10)>>)

\* {:?} of (self.0 as f64) * 25.4 / 7200.0, for the one unit the parser
\* produces (ParaShape::new sets every indent to HwpUnit(0)).
to_mm_debug(unit) == CASE unit = 0 -> Bytes("0.0")

to_odt_str(alignment) == Bytes(alignment)

\* char::encode_utf8
Utf8(c) ==
    IF c < 128 THEN <<c>>
    ELSE IF c < 2048 THEN <<192 + (c \div 64), 128 + (c % 64)>>
    ELSE IF c < 65536
    THEN <<224 + (c \div 4096), 128 + ((c \div 64) % 64), 128 + (c % 64)>>
    ELSE <<240 + (c \div 262144), 128 + ((c \div 4096) % 64),
           128 + ((c \div 64) % 64), 128 + (c % 64)>>


into_bytes(s) == Flatten([i \in 1..Len(s) |-> Utf8(s[i])])

Document_new ==
    [sections |-> <<>>, fonts |-> <<>>, styles |-> <<>>, char_shapes |-> <<>>,
     para_shapes |-> <<>>, border_fills |-> <<>>]

Section_new ==
    [blocks |-> <<>>, page_width |-> 5644, page_height |-> 7990,
     margin_top |-> 1440, margin_bottom |-> 1440, margin_left |-> 1440,
     margin_right |-> 1440]

CharShape_new(id) ==
    [id |-> id, font_id |-> 0, font_size |-> 200, bold |-> FALSE,
     italic |-> FALSE, underline |-> "None", strikethrough |-> FALSE,
     color |-> 0, background_color |-> 16777215]

ParaShape_new(id) ==
    [id |-> id, alignment |-> "left", indent_left |-> 0, indent_right |-> 0,
     indent_first |-> 0, spacing_before |-> 0, spacing_after |-> 0,
     line_spacing |-> 100, tabs |-> <<>>]

----------------------------------------------------------------------------
(* writer/mod.rs: the ODT writer *)

ManifestXml ==
    Bytes("<?xml version=\"1.0\" encoding=\"UTF-8\"?>\n")
    \o Bytes("<manifest:manifest xmlns:manifest=\"urn:oasis:names:tc:opendocume")
    \o Bytes("nt:xmlns:manifest:1.0\" manifest:version=\"1.2\">\n")
    \o Bytes("  <manifest:file-entry manifest:media-type=\"application/vnd.oasi")
    \o Bytes("s.opendocument.text\" manifest:full-path=\"/\"/>\n")
    \o Bytes("  <manifest:file-entry manifest:media-type=\"text/xml\" manifest:f")
    \o Bytes("ull-path=\"content.xml\"/>\n")
    \o Bytes("  <manifest:file-entry manifest:media-type=\"text/xml\" manifest:f")
    \o Bytes("ull-path=\"styles.xml\"/>\n")
    \o Bytes("  <manifest:file-entry manifest:media-type=\"text/xml\" manifest:f")
    \o Bytes("ull-path=\"settings.xml\"/>\n")
    \o Bytes("  <manifest:file-entry manifest:media-type=\"text/xml\" manifest:f")
    \o Bytes("ull-path=\"meta.xml\"/>\n")
    \o Bytes("</manifest:manifest>")

ContentHead ==
    Bytes("<?xml version=\"1.0\" encoding=\"UTF-8\"?>\n")
    \o Bytes("<office:document-content\n")
    \o Bytes("  xmlns:office=\"urn:oasis:names:tc:opendocument:xmlns:office:1.0")
    \o Bytes("\"\n")
    \o Bytes("  xmlns:text=\"urn:oasis:names:tc:opendocument:xmlns:text:1.0\"\n")
    \o Bytes("  xmlns:table=\"urn:oasis:names:tc:opendocument:xmlns:table:1.0\"\n")
    \o Bytes("  xmlns:draw=\"urn:oasis:names:tc:opendocument:xmlns:drawing:1.0\"")
    \o Bytes("\n")
    \o Bytes("  xmlns:xlink=\"http://www.w3.org/1999/xlink\"\n")
    \o Bytes("  office:version=\"1.2\">\n")
    \o Bytes("  <office:scripts/>\n")
    \o Bytes("  <office:font-face-decls>")

FontFaceParts ==
    << Bytes("\n")
       \o Bytes("    <style:font-face style:name=\"F"),
       Bytes("\" svg:font-family=\"'"),
       Bytes("'\"\n")
       \o Bytes("      style:font-family-generic=\"swiss\" style:font-pitch=\"va")
       \o Bytes("riable\"/>") >>

ContentBody ==
    Bytes("\n")
    \o Bytes("  </office:font-face-decls>\n")
    \o Bytes("  <office:automatic-styles/>\n")
    \o Bytes("  <office:body>\n")
    \o Bytes("    <office:text>")

ContentTail ==
    Bytes("\n")
    \o Bytes("    </office:text>\n")
    \o Bytes("  </office:body>\n")
    \o Bytes("</office:document-content>")

ParagraphParts ==
    << Bytes("\n")
       \o Bytes("      <text:p text:style-name=\"P"),
       Bytes("\">"),
       Bytes("\n")
       \o Bytes("      </text:p>") >>

TableParts ==
    << Bytes("\n")
       \o Bytes("      <table:table table:name=\"Table"),
       Bytes("\" table:style-name=\"Table1\">"),
       Bytes("\n")
       \o Bytes("      </table:table>") >>

RowParts ==
    << Bytes("\n")
       \o Bytes("        <table:table-row>\n"),
       Bytes("        </table:table-row>") >>

CellParts ==
    << Bytes("          <table:table-cell table:value-type=\"string\">"),
       Bytes("\n")
       \o Bytes("          </table:table-cell>\n") >>

SpanParts ==
    << Bytes("\n")
       \o Bytes("        <text:span text:style-name=\"T"),
       Bytes("\">"),
       Bytes("</text:span>") >>

StylesHead ==
    Bytes("<?xml version=\"1.0\" encoding=\"UTF-8\"?>\n")
    \o Bytes("<office:document-styles\n")
    \o Bytes("  xmlns:office=\"urn:oasis:names:tc:opendocument:xmlns:office:1.0")
    \o Bytes("\"\n")
    \o Bytes("  xmlns:style=\"urn:oasis:names:tc:opendocument:xmlns:style:1.0\"\n")
    \o Bytes("  xmlns:text=\"urn:oasis:names:tc:opendocument:xmlns:text:1.0\"\n")
    \o Bytes("  xmlns:table=\"urn:oasis:names:tc:opendocument:xmlns:table:1.0\"\n")
    \o Bytes("  xmlns:fo=\"urn:oasis:names:tc:opendocument:xmlns:xsl-fo-compati")
    \o Bytes("ble:1.0\"\n")
    \o Bytes("  xmlns:svg=\"urn:oasis:names:tc:opendocument:xmlns:svg-compatibl")
    \o Bytes("e:1.0\"\n")
    \o Bytes("  office:version=\"1.2\">\n")
    \o Bytes("  <office:font-face-decls>")

StylesDefault ==
    Bytes("\n")
    \o Bytes("  </office:font-face-decls>\n")
    \o Bytes("  <office:styles>\n")
    \o Bytes("    <style:default-style style:family=\"paragraph\">\n")
    \o Bytes("      <style:paragraph-properties/>\n")
    \o Bytes("      <style:text-properties/>\n")
    \o Bytes("    </style:default-style>")

TextStyleParts ==
    << Bytes("\n")
       \o Bytes("    <style:style style:name=\"T"),
       Bytes("\" style:family=\"text\">\n")
       \o Bytes("      <style:text-properties style:font-name=\"F"),
       Bytes("\" fo:font-size=\""),
       Bytes("pt\" fo:color=\""),
       Bytes("\""),
       Bytes("/>"),
       Bytes("\n")
       \o Bytes("    </style:style>") >>

ParaStyleParts ==
    << Bytes("\n")
       \o Bytes("    <style:style style:name=\"P"),
       Bytes("\" style:family=\"paragraph\">\n")
       \o Bytes("      <style:paragraph-properties fo:text-align=\""),
       Bytes("\" fo:margin-left=\""),
       Bytes("mm\" fo:margin-right=\""),
       Bytes("mm\"/>"),
       Bytes("\n")
       \o Bytes("    </style:style>") >>

StylesTail ==
    Bytes("\n")
    \o Bytes("  </office:styles>\n")
    \o Bytes("  <office:automatic-styles>\n")
    \o Bytes("    <style:style style:name=\"Table1\" style:family=\"table\">\n")
    \o Bytes("      <style:table-properties table:border-model=\"collapsing\"/>\n")
    \o Bytes("    </style:style>\n")
    \o Bytes("  </office:automatic-styles>\n")
    \o Bytes("  <office:master-styles>\n")
    \o Bytes("    <style:master-page style:name=\"Standard\" style:page-layout-n")
    \o Bytes("ame=\"pm1\"/>\n")
    \o Bytes("  </office:master-styles>\n")
    \o Bytes("</office:document-styles>")

SettingsXml ==
    Bytes("<?xml version=\"1.0\" encoding=\"UTF-8\"?>\n")
    \o Bytes("<office:document-settings\n")
    \o Bytes("  xmlns:office=\"urn:oasis:names:tc:opendocument:xmlns:office:1.0")
    \o Bytes("\"\n")
    \o Bytes("  office:version=\"1.2\">\n")
    \o Bytes("  <office:settings/>\n")
    \o Bytes("</office:document-settings>")

MetaXml ==
    Bytes("<?xml version=\"1.0\" encoding=\"UTF-8\"?>\n")
    \o Bytes("<office:document-meta\n")
    \o Bytes("  xmlns:office=\"urn:oasis:names:tc:opendocument:xmlns:office:1.0")
    \o Bytes("\"\n")
    \o Bytes("  xmlns:meta=\"urn:oasis:names:tc:opendocument:xmlns:meta:1.0\"\n")
    \o Bytes("  xmlns:dc=\"http://purl.org/dc/elements/1.1/\"\n")
    \o Bytes("  office:version=\"1.2\">\n")
    \o Bytes("  <office:meta>\n")
    \o Bytes("    <meta:generator>HanCon/Rust</meta:generator>\n")
    \o Bytes("  </office:meta>\n")
    \o Bytes("</office:document-meta>")

\* b"application/vnd.oasis.opendocument.text"
MimeType == Bytes("application/vnd.oasis.opendocument.text")

escape_xml_for_content(text) ==
    Flatten([i \in 1..Len(text) |->
               IF text[i] = 38 THEN Bytes("&amp;")
               ELSE IF text[i] = 60 THEN Bytes("&lt;")
               ELSE IF text[i] = 62 THEN Bytes("&gt;")
               ELSE <<text[i]>>])

generate_inline_content(inline) ==
    IF inline.kind = "Text"
    THEN SpanParts[1] \o Dec(inline.char_shape_id) \o SpanParts[2]
         \o escape_xml_for_content(inline.text) \o SpanParts[3]
    ELSE IF inline.kind = "Field" /\ inline.field = "PageNumber"
    THEN Bytes("<text:page-number/>")
    ELSE IF inline.kind = "Field" /\ inline.field = "PageCount"
    THEN Bytes("<text:page-count/>")
    ELSE IF inline.kind = "Field" /\ inline.field = "Date"
    THEN Bytes("<text:date/>")
    ELSE IF inline.kind = "Field" /\ inline.field = "Time"
    THEN Bytes("<text:time/>")
    ELSE <<>>

\* A block is [kind |-> "Paragraph", style_id, inlines], [kind |-> "Table",
\* id, rows, cells] or [kind |-> "Shape"]; rows.get(&row_idx) holds the cells
\* of that row in the order of table.cells.
RECURSIVE generate_block_content(_)

\* A writer that puts every cell of the table in every row.
generate_block_content_AllCells(block) ==
    IF block.kind = "Table"
    THEN TableParts[1] \o Dec(block.id) \o TableParts[2]
         \o Flatten([r \in 1..block.rows |->
               RowParts[1]
               \o Flatten([c \in 1..Len(block.cells) |->
                     CellParts[1]
                     \o Flatten([k \in 1..Len(block.cells[c].content) |->
                           generate_block_content(block.cells[c].content[k])])
                     \o CellParts[2]])
               \o RowParts[2]])
         \o TableParts[3]
    ELSE IF block.kind = "Paragraph"
    THEN ParagraphParts[1] \o Dec(block.style_id) \o ParagraphParts[2]
         \o Flatten([i \in 1..Len(block.inlines) |->
                       generate_inline_content(block.inlines[i])])
         \o ParagraphParts[3]
    ELSE <<>>

generate_block_content(block) ==
    IF block.kind = "Paragraph"
    THEN ParagraphParts[1] \o Dec(block.style_id) \o ParagraphParts[2]
         \o Flatten([i \in 1..Len(block.inlines) |->
                       generate_inline_content(block.inlines[i])])
         \o ParagraphParts[3]
    ELSE IF block.kind = "Table"
    THEN TableParts[1] \o Dec(block.id) \o TableParts[2]
         \o Flatten([r \in 1..block.rows |->
               RowParts[1]
               \o Flatten([c \in 1..Len(block.cells) |->
                     IF block.cells[c].row = r - 1
                     THEN CellParts[1]
                          \o Flatten([k \in 1..Len(block.cells[c].content) |->
                                generate_block_content(block.cells[c].content[k])])
                          \o CellParts[2]
                     ELSE <<>>])
               \o RowParts[2]])
         \o TableParts[3]
    ELSE <<>>

FontFace(idx, font_name) ==
    FontFaceParts[1] \o Dec(idx) \o FontFaceParts[2] \o font_name \o FontFaceParts[3]

FontFaces(doc) == Flatten([i \in 1..Len(doc.fonts) |-> FontFace(i - 1, doc.fonts[i])])

generate_content_xml(doc) ==
    Ok(ContentHead
       \o FontFaces(doc)
       \o ContentBody
       \o Flatten([s \in 1..Len(doc.sections) |->
             Flatten([b \in 1..Len(doc.sections[s].blocks) |->
                        generate_block_content(doc.sections[s].blocks[b])])])
       \o ContentTail)

TextStyle(char_shape) ==
    TextStyleParts[1] \o Dec(char_shape.id)
    \o TextStyleParts[2] \o Dec(char_shape.font_id)
    \o TextStyleParts[3] \o to_pt_display(char_shape.font_size)
    \o TextStyleParts[4] \o to_hex(char_shape.color)
    \o TextStyleParts[5]
    \o (IF char_shape.bold THEN Bytes(" fo:font-weight=\"bold\"") ELSE <<>>)
    \o TextStyleParts[6] \o TextStyleParts[7]

ParaStyle(para_shape) ==
    ParaStyleParts[1] \o Dec(para_shape.id)
    \o ParaStyleParts[2] \o to_odt_str(para_shape.alignment)
    \o ParaStyleParts[3] \o to_mm_debug(para_shape.indent_left)
    \o ParaStyleParts[4] \o to_mm_debug(para_shape.indent_right)
    \o ParaStyleParts[5] \o ParaStyleParts[6]

generate_styles_xml(doc) ==
    Ok(StylesHead
       \o FontFaces(doc)
       \o StylesDefault
       \o Flatten([i \in 1..Len(doc.char_shapes) |-> TextStyle(doc.char_shapes[i])])
       \o Flatten([i \in 1..Len(doc.para_shapes) |-> ParaStyle(doc.para_shapes[i])])
       \o StylesTail)

generate_manifest == ManifestXml
generate_settings_xml == SettingsXml
generate_meta_xml == MetaXml

\* The entries in another order: the manifest before the mimetype.
generate_odt_ManifestFirst(doc) ==
    write_zip_stored(
        << <<Bytes("META-INF/manifest.xml"), into_bytes(generate_manifest)>>,
           <<Bytes("mimetype"), MimeType>>,
           <<Bytes("content.xml"), into_bytes(generate_content_xml(doc).val)>>,
           <<Bytes("styles.xml"), into_bytes(generate_styles_xml(doc).val)>>,
           <<Bytes("settings.xml"), into_bytes(generate_settings_xml)>>,
           <<Bytes("meta.xml"), into_bytes(generate_meta_xml)>> >>)

generate_odt(doc) ==
    LET content == generate_content_xml(doc)
        styles == generate_styles_xml(doc)
    IN  IF ~content.ok THEN content
        ELSE IF ~styles.ok THEN styles
        ELSE write_zip_stored(
               << <<Bytes("mimetype"), MimeType>>,
                  <<Bytes("META-INF/manifest.xml"), into_bytes(generate_manifest)>>,
                  <<Bytes("content.xml"), into_bytes(content.val)>>,
                  <<Bytes("styles.xml"), into_bytes(styles.val)>>,
                  <<Bytes("settings.xml"), into_bytes(generate_settings_xml)>>,
                  <<Bytes("meta.xml"), into_bytes(generate_meta_xml)>> >>)

----------------------------------------------------------------------------
(* format/mod.rs: format detection and the HWP parser *)

ZipSignature == <<80, 75, 3, 4>>

detect_format_ShortSignature(data) ==
    IF Len(data) < 4
    THEN Err("InvalidFormat", <<"File too small">>)
    ELSE IF check_signature(data, 0, SubSeq(Ole2Signature, 1, 4))
    THEN Ok("HWP")
    ELSE IF check_signature(data, 0, ZipSignature)
    THEN Ok("HWPX")
    ELSE Err("InvalidFormat", <<"Unknown file format">>)

detect_format(data) ==
    IF Len(data) < 4
    THEN Err("InvalidFormat", <<"File too small">>)
    ELSE IF check_signature(data, 0, Ole2Signature)
    THEN Ok("HWP")
    ELSE IF check_signature(data, 0, ZipSignature)
    THEN Ok("HWPX")
    ELSE Err("InvalidFormat", <<"Unknown file format">>)

\* A trim that removes one trailing NUL only.
trim_end_nul_Once(s) ==
    IF s # <<>> /\ s[Len(s)] = 0 THEN SubSeq(s, 1, Len(s) - 1) ELSE s

\* s.trim_end_matches('\0')
RECURSIVE trim_end_nul(_)
trim_end_nul(s) ==
    IF s # <<>> /\ s[Len(s)] = 0 THEN trim_end_nul(SubSeq(s, 1, Len(s) - 1)) ELSE s

parse_face_name(payload) ==
    IF payload = <<>>
    THEN Ok(<<>>)
    ELSE LET idx == {i \in 0..(Len(payload) - 1) : i % 2 = 0}
             n == Cardinality(idx)
         IN  IF \E i \in idx : i + 1 >= Len(payload)
             THEN Ok(<<>>)
             ELSE Ok(trim_end_nul(from_utf16_lossy(
                     SubSeq([k \in 1..n |-> payload[2 * k - 1] + 256 * payload[2 * k]],
                            1, n))))

parse_char_shape(payload, id) == Ok(CharShape_new(id))

parse_para_shape(payload, id) == Ok(ParaShape_new(id))

\* A style parser that numbers every style 0.
parse_style_IdZero(payload, id) ==
    Ok([id |-> 0, name |-> <<>>, style_type |-> "Paragraph", parent_id |-> 0,
        char_shape_id |-> 0, para_shape_id |-> 0])

parse_style(payload, id) ==
    Ok([id |-> id, name |-> <<>>, style_type |-> "Paragraph", parent_id |-> 0,
        char_shape_id |-> 0, para_shape_id |-> 0])

Border_none == [style |-> "None", width |-> 0, color |-> 0]

parse_border_fill(payload, id) ==
    Ok([id |-> id, left |-> Border_none, right |-> Border_none, top |-> Border_none,
        bottom |-> Border_none, diagonal |-> Border_none, fill_type |-> "None",
        fill_color |-> 0, background_color |-> 16777215])

\* A dispatcher that refuses the tags it has no parser for.
DocInfoRecord_Strict(doc, record) ==
    IF record.tagid \in {19, 20, 21, 25, 26}
    THEN Ok([doc EXCEPT !.fonts = Append(@, <<>>)])
    ELSE Err("ParseError", <<"Unknown tag", record.tagid>>)

\* The match of parse_docinfo on one record: the document after it, or the
\* error of the parser called.
DocInfoRecord(doc, record) ==
    LET parsed ==
            IF record.tagid = 19 THEN parse_face_name(record.payload)
            ELSE IF record.tagid = 21
            THEN parse_char_shape(record.payload, Len(doc.char_shapes))
            ELSE IF record.tagid = 25
            THEN parse_para_shape(record.payload, Len(doc.para_shapes))
            ELSE IF record.tagid = 26
            THEN parse_style(record.payload, Len(doc.styles))
            ELSE IF record.tagid = 20
            THEN parse_border_fill(record.payload, Len(doc.border_fills))
            ELSE Ok(<<>>)
    IN  IF ~parsed.ok THEN parsed
        ELSE IF record.tagid = 19
        THEN Ok([doc EXCEPT !.fonts = Append(@, parsed.val)])
        ELSE IF record.tagid = 21
        THEN Ok([doc EXCEPT !.char_shapes = Append(@, parsed.val)])
        ELSE IF record.tagid = 25
        THEN Ok([doc EXCEPT !.para_shapes = Append(@, parsed.val)])
        ELSE IF record.tagid = 26
        THEN Ok([doc EXCEPT !.styles = Append(@, parsed.val)])
        ELSE IF record.tagid = 20
        THEN Ok([doc EXCEPT !.border_fills = Append(@, parsed.val)])
        ELSE Ok(doc)

\* while let Some(record) = stream.next_record()? { ... }
RECURSIVE DocInfoLoop(_, _)
DocInfoLoop(stream, doc) ==
    LET next == RecordStream_next_record(stream)
    IN  IF ~next.ret.ok THEN next.ret
        ELSE IF next.ret.val = None THEN Ok(doc)
        ELSE LET after == DocInfoRecord(doc, next.ret.val)
             IN  IF ~after.ok THEN after ELSE DocInfoLoop(next.stream, after.val)

\* The document parse_docinfo leaves in *doc, or its error.
parse_docinfo(data, doc) == DocInfoLoop(RecordStream_new(data), doc)

RECURSIVE BodyTextLoop(_)
BodyTextLoop(stream) ==
    LET next == RecordStream_next_record(stream)
    IN  IF ~next.ret.ok THEN next.ret
        ELSE IF next.ret.val = None THEN Ok(Section_new)
        ELSE BodyTextLoop(next.stream)

parse_bodytext(data, doc) == BodyTextLoop(RecordStream_new(data))

\* A call that ended in a panic or that never ends is not a value: no match
\* and no `?` of the caller sees it.
Abnormal(r) == ~r.ok /\ r.kind \in {"panic", "never returns"}

\* The loop over BodyText/Section{section_idx}, in three parts: the lookup
\* of the stream, the match on its result, and the `?` on the parsed section.
RECURSIVE SectionLoop(_, _, _)
RECURSIVE SectionMatch(_, _, _, _)
RECURSIVE SectionPush(_, _, _, _)
SectionLoop(ole2, doc, section_idx) ==
    With(get_stream(ole2, Bytes("BodyText/Section") \o Dec(section_idx)),
         LAMBDA bodytext_data : SectionMatch(ole2, doc, section_idx, bodytext_data))

SectionMatch(ole2, doc, section_idx, bodytext_data) ==
    IF Abnormal(bodytext_data) THEN bodytext_data
    ELSE IF ~bodytext_data.ok THEN Ok(doc)
    ELSE SectionPush(ole2, doc, section_idx,
                     parse_bodytext(bodytext_data.val, doc))

\* A loop that ends at a section it cannot parse and keeps the document.
SectionPush_SkipsBroken(ole2, doc, section_idx, section) ==
    IF ~section.ok THEN Ok(doc)
    ELSE SectionLoop(ole2, [doc EXCEPT !.sections = Append(@, section.val)],
                     section_idx + 1)

SectionPush(ole2, doc, section_idx, section) ==
    IF ~section.ok THEN section
    ELSE SectionLoop(ole2, [doc EXCEPT !.sections = Append(@, section.val)],
                     section_idx + 1)

\* parse_hwp after the DocInfo stream: the `?` on parse_docinfo, then the
\* sections.
ParseSections(ole2, doc) ==
    IF ~doc.ok THEN doc ELSE SectionLoop(ole2, doc.val, 0)

\* parse_hwp after the lookups of FileHeader and DocInfo.
ParseStreams(ole2, file_header, docinfo_data) ==
    IF ~file_header.ok THEN file_header
    ELSE ParseSections(ole2,
             IF docinfo_data.ok THEN parse_docinfo(docinfo_data.val, Document_new)
             ELSE IF Abnormal(docinfo_data) THEN docinfo_data
             ELSE Ok(Document_new))

\* parse_hwp after Ole2::parse.
ParseOpened(ole2) ==
    IF ~ole2.ok THEN ole2
    ELSE With(get_stream(ole2.val, Bytes("FileHeader")), LAMBDA file_header :
         With(get_stream(ole2.val, Bytes("DocInfo")), LAMBDA docinfo_data :
         ParseStreams(ole2.val, file_header, docinfo_data)))

parse_hwp(data) == With(Ole2_parse(data), ParseOpened)

\* A decoder of HWPX that delivers a document without content.
parse_hwpx_EmptyDocument(data) == Ok(Document_new)

parse_hwpx(data) == Err("ParseError", <<"HWPX parsing not yet implemented">>)

----------------------------------------------------------------------------
(* common/error.rs, lib.rs: the conversion *)

\* impl Display for HwpError: the prefix, then the message.
Display(e) ==
    IF e.kind = "InvalidSignature" THEN <<"Invalid file signature">>
    ELSE <<CASE e.kind = "InvalidFormat" -> "Invalid format: "
             [] e.kind = "UnsupportedVersion" -> "Unsupported version: "
             [] e.kind = "ParseError" -> "Parse error: "
             [] e.kind = "IoError" -> "IO error: "
             [] e.kind = "ZipError" -> "Zip error: "
             [] e.kind = "InvalidData" -> "Invalid data: "
             [] e.kind = "NotFound" -> "Not found: ">> \o e.msg

\* .map_err(|e| e.to_string())?
Failure(e) == IF Abnormal(e) THEN e ELSE Err("String", Display(e))

SizeLimit == 10000000

\* validate_and_convert up to the detection of the format: the failure it
\* returns, or the format and the warnings it goes on with.
DetectAndWarn(data) ==
    LET detected == detect_format(data)
    IN  IF ~detected.ok THEN Failure(detected)
        ELSE Ok([format |-> detected.val,
                 warnings |-> IF Len(data) > SizeLimit
                              THEN <<"File size exceeds 10MB, conversion may be slow">>
                              ELSE <<>>])

\* A variant of Validate without the test for the empty buffer: the buffer
\* goes straight to the detection of the format.
Validate_NoEmptyTest(data) == DetectAndWarn(data)

Validate(data) ==
    IF data = <<>>
    THEN Err("String", <<"File data is empty">>)
    ELSE DetectAndWarn(data)

\* The parse of the document and the warning about its sections.
\* A parse step that warns about the sections of every document.
WarnNoSections_Always(parsed, warnings) ==
    IF ~parsed.ok THEN Failure(parsed)
    ELSE Ok([doc |-> parsed.val,
             warnings |-> Append(warnings, "Document has no sections")])

WarnNoSections(parsed, warnings) ==
    IF ~parsed.ok THEN Failure(parsed)
    ELSE Ok([doc |-> parsed.val,
             warnings |-> IF parsed.val.sections = <<>>
                          THEN Append(warnings, "Document has no sections")
                          ELSE warnings])

ParseDocument(data, format, warnings) ==
    WarnNoSections(IF format = "HWP" THEN parse_hwp(data) ELSE parse_hwpx(data),
                   warnings)

\* The conversion to ODT and the value returned.
Convert(doc, warnings) ==
    LET converted_data == generate_odt(doc)
    IN  IF ~converted_data.ok THEN Failure(converted_data)
        ELSE Ok([data |-> converted_data.val,
                 message |-> "Conversion completed successfully",
                 warnings |-> warnings])

----------------------------------------------------------------------------
(* Each specification below runs one component and leaves the others idle *)

SeqsUpTo(S, n) == UNION {[1..k -> S] : k \in 0..n}


IdleRec ==
    /\ rec_in = [recs |-> <<>>, huge |-> FALSE, cut |-> 0]
    /\ rs = RecordStream_new(<<>>)
    /\ rs_ret = <<>>
    /\ rs_out = <<>>
    /\ rs_item = <<>>

IdleZip ==
    /\ zip_in = <<>>
    /\ zip_i = 0
    /\ zip_st = ZipStart
    /\ zip_ret = <<>>

IdleOle ==
    /\ ole_in = <<>>
    /\ ole = <<>>
    /\ ole_ls = <<>>
    /\ ole_n = 0
    /\ ole_call = <<>>

IdleDoc ==
    /\ di_in = <<>>
    /\ di_stream = RecordStream_new(<<>>)
    /\ di_doc = Document_new
    /\ di_seen = <<>>
    /\ di_ret = <<>>

IdleWr ==
    /\ wr_doc = Document_new
    /\ wr_content = <<>>
    /\ wr_styles = <<>>

IdleRun ==
    /\ file_data = <<>>
    /\ pc = "idle"
    /\ run_format = <<>>
    /\ run_doc = <<>>
    /\ run_warnings = <<>>
    /\ run_result = <<>>

----------------------------------------------------------------------------
(* Buffers for the record decoder: concatenations of encoded records, cut   *)
(* short by some bytes or followed by a record that declares 2^32 - 1       *)
(* payload bytes.                                                           *)

MaxRecords == 2
MaxPayload == 1
MaxCut == 9

RecHeads == {<<19, 0>>, <<1023, 1023>>, <<0, 1>>}

RecDescs ==
    {[tagid |-> h[1], level |-> h[2], ext |-> e, size |-> n] :
        h \in RecHeads, e \in BOOLEAN, n \in 0..MaxPayload}

PayloadOf(d) == [i \in 1..d.size |-> 160 + i]

EncodeHeaderWord(tagid, level, size12) ==
    <<tagid % 256,
      (tagid \div 256) + (level % 64) * 4,
      (level \div 64) + (size12 % 16) * 16,
      size12 \div 16>>

EncodeRecord(d) ==
    IF d.ext
    THEN EncodeHeaderWord(d.tagid, d.level, 4095) \o U32(d.size) \o PayloadOf(d)
    ELSE EncodeHeaderWord(d.tagid, d.level, d.size) \o PayloadOf(d)

RECURSIVE EncodeAll(_)
EncodeAll(ds) ==
    IF ds = <<>> THEN <<>> ELSE EncodeRecord(Head(ds)) \o EncodeAll(Tail(ds))

HugeRecord == EncodeHeaderWord(19, 0, 4095) \o <<255, 255, 255, 255>> \o <<1, 2>>

RecInputs ==
    {[recs |-> ds, huge |-> hg, cut |-> c] :
        ds \in SeqsUpTo(RecDescs, MaxRecords), hg \in BOOLEAN, c \in 0..MaxCut}

RecWhole(in) == EncodeAll(in.recs) \o (IF in.huge THEN HugeRecord ELSE <<>>)

RecBuffer(in) == SubSeq(RecWhole(in), 1, Len(RecWhole(in)) - in.cut)

RecWellFormed(in) == ~in.huge /\ in.cut = 0

InitRec ==
    /\ IdleZip
    /\ IdleOle
    /\ IdleDoc
    /\ IdleWr
    /\ IdleRun
    /\ rec_in \in {in \in RecInputs : in.cut <= Len(RecWhole(in))}
    /\ rs = RecordStream_new(RecBuffer(rec_in))
    /\ rs_ret = <<>>
    /\ rs_out = <<>>
    /\ rs_item = <<>>

NextRecord ==
    LET r == RecordStream_next_record(rs)
    IN  /\ rs' = r.stream
        /\ rs_ret' = <<r.ret>>
        /\ rs_out' = IF r.ret.ok /\ r.ret.val # None
                     THEN Append(rs_out, r.ret.val)
                     ELSE rs_out
        /\ UNCHANGED <<rec_in, rs_item, rec_others>>

\* Iterator::next, which calls next_record
IterNext ==
    \E r \in {RecordStream_next_record(rs)} :
        /\ rs' = r.stream
        /\ rs_ret' = <<r.ret>>
        /\ rs_out' = IF r.ret.ok /\ r.ret.val # None
                     THEN Append(rs_out, r.ret.val)
                     ELSE rs_out
        /\ rs_item' = <<Iterator_next(r.ret)>>
        /\ UNCHANGED <<rec_in, rec_others>>

NextRec == NextRecord \/ IterNext

SpecRec == InitRec /\ [][NextRec]_vars

----------------------------------------------------------------------------
(* The packager, one loop iteration at a time *)

MaxEntries == 3

ZipEntrySet ==
    { <<Bytes("mimetype"), MimeType>>,
      <<Bytes("a.txt"), Bytes("hello")>>,
      <<<<>>, <<>>>>,
      <<Bytes("b"), <<0>>>>,
      <<<<195, 169>>, <<255, 255>>>> }

InitZip ==
    /\ IdleRec
    /\ IdleOle
    /\ IdleDoc
    /\ IdleWr
    /\ IdleRun
    /\ zip_in \in SeqsUpTo(ZipEntrySet, MaxEntries)
    /\ zip_i = 0
    /\ zip_st = ZipStart
    /\ zip_ret = <<>>

ZipWriteEntry ==
    /\ zip_ret = <<>>
    /\ zip_i < Len(zip_in)
    /\ zip_st' = ZipEntry(zip_st, zip_in[zip_i + 1])
    /\ zip_i' = zip_i + 1
    /\ UNCHANGED <<zip_in, zip_ret, zip_others>>

ZipFinish ==
    /\ zip_ret = <<>>
    /\ zip_i = Len(zip_in)
    /\ zip_ret' = <<Ok(ZipEnd(zip_st, Len(zip_in)))>>
    /\ UNCHANGED <<zip_in, zip_i, zip_st, zip_others>>

NextZip == ZipWriteEntry \/ ZipFinish

SpecZip == InitZip /\ [][NextZip]_vars

----------------------------------------------------------------------------
(* OLE2 files for the container: a root entry with one stream A, alone or   *)
(* beside a second stream or a storage, laid out as the reader above reads  *)
(* them; some cut short or with a damaged signature.                        *)

MaxVisits == 6

Utf16Bytes(units) == Flatten([k \in 1..Len(units) |-> U16(units[k])])

DirEntryBytes(e) ==
    Pad(Utf16Bytes(e.name), 64) \o U16(e.name_len) \o <<e.entry_type, 1>>
    \o e.left_sibling \o e.right_sibling \o e.child \o Zeros(36)
    \o e.start_sector \o e.stream_size \o Zeros(4)

OleHeaderBytes(power, first_dir_sector, fat) ==
    Ole2Signature \o Zeros(16) \o U16(62) \o U16(3) \o <<254, 255>>
    \o U16(power) \o U16(6) \o Zeros(10) \o U32(1) \o U32(Len(fat))
    \o first_dir_sector \o Zeros(4) \o EndOfChain \o U32(0) \o Zeros(8)
    \o Flatten(fat) \o Flatten([i \in 1..(109 - Len(fat)) |-> NoEntry])

SectorFill(k, size) == [i \in 1..size |-> (37 * k + i) % 256]

\* The header, the directory entries in consecutive sectors from sector 0,
\* then the given sectors, each filled up with zeros.
BuildOle(power, entries, fat, sectors) ==
    LET size == 2^power
        dir == Flatten([i \in 1..Len(entries) |-> DirEntryBytes(entries[i])])
    IN  OleHeaderBytes(power, U32(0), fat)
        \o Pad(dir, ((Len(dir) + size - 1) \div size) * size)
        \o Flatten([k \in 1..Len(sectors) |-> Pad(sectors[k], size)])

Named(text) == [name |-> Bytes(text), name_len |-> 2 * Len(text)]

DirEntryOf(named, type, left, right, child, start, size) ==
    [name |-> named.name, name_len |-> named.name_len, entry_type |-> type,
     left_sibling |-> left, right_sibling |-> right, child |-> child,
     start_sector |-> start, stream_size |-> size]

EmptyEntry == DirEntryOf(Named(""), 0, NoEntry, NoEntry, NoEntry, U32(0), U32(0))

OlePowers == {7, 8}
OleRoots == {"", "R"}
OleChains == {"one", "two", "loop", "off"}
\* The second entry: none, a stream B left or right of A, a storage S holding
\* a stream A, and the damaged directories: A its own right sibling ("self"),
\* a storage S whose child is entry 0 ("back"), B both left and right of A
\* ("shared").
OleSeconds == {"none", "left", "right", "storage", "self", "back", "shared"}
OleSizes(power) == {0, 5, 2^power, 2^power + 1}

\* The directory has four entries; its sectors come first, then the two
\* sectors of stream A, then the sector of the second stream.
DirSectors(power) == (4 * 128) \div 2^power

OleEntries(d) ==
    LET a == DirSectors(d.power)
        A == DirEntryOf(Named("A"), 2,
                        IF d.second \in {"left", "shared"} THEN U32(2) ELSE NoEntry,
                        IF d.second \in {"right", "storage", "back", "shared"}
                        THEN U32(2)
                        ELSE IF d.second = "self" THEN U32(1) ELSE NoEntry,
                        NoEntry, U32(a), U32(d.size))
        second == IF d.second \in {"none", "self"} THEN EmptyEntry
                  ELSE IF d.second = "storage"
                  THEN DirEntryOf(Named("S"), 1, NoEntry, NoEntry, U32(3), U32(0), U32(0))
                  ELSE IF d.second = "back"
                  THEN DirEntryOf(Named("S"), 1, NoEntry, NoEntry, U32(0), U32(0), U32(0))
                  ELSE DirEntryOf(Named("B"), 2, NoEntry, NoEntry, NoEntry,
                                  U32(a + 2), U32(3))
        third == IF d.second = "storage"
                 THEN DirEntryOf(Named("A"), 2, NoEntry, NoEntry, NoEntry,
                                 U32(a + 2), U32(3))
                 ELSE EmptyEntry
    IN  << DirEntryOf(Named(d.root), 5, NoEntry, NoEntry, U32(1), U32(0), U32(0)),
           A, second, third >>

OleFat(d) ==
    LET a == DirSectors(d.power)
    IN  [i \in 1..(a + 3) |->
            IF i < a THEN U32(i)
            ELSE IF i = a + 1
            THEN (IF d.chain = "one" THEN EndOfChain
                  ELSE IF d.chain = "two" THEN U32(a + 1)
                  ELSE IF d.chain = "loop" THEN U32(a)
                  ELSE IF d.chain = "far" THEN U32(109)
                  ELSE U32(200))
            ELSE EndOfChain]

\* A file whose directory is the chain of sectors 0 and 5: the root entry in
\* sector 0, the entry of stream A in sector 5, the bytes of A in sector 4.
OleScatteredFile ==
    BuildOle(7,
             << DirEntryOf(Named(""), 5, NoEntry, NoEntry, U32(1), U32(0), U32(0)) >>,
             [i \in 1..6 |-> IF i = 1 THEN U32(5) ELSE EndOfChain],
             [k \in 1..5 |->
                 IF k = 5
                 THEN DirEntryBytes(DirEntryOf(Named("A"), 2, NoEntry, NoEntry,
                                               NoEntry, U32(4), U32(5)))
                 ELSE SectorFill(k, 128)])

\* The declared name lengths, in bytes, of the files below.
NameLens == {0, 1, 2, 3, 4, 20, 21, 22, 31, 32, 33, 34, 63, 64, 65, 66}

\* A file with one stream below the root: its name field holds "FileHeader"
\* and zeros after it, its declared name length is the given one.
OleNameFile(name_len) ==
    BuildOle(7,
             << DirEntryOf(Named(""), 5, NoEntry, NoEntry, U32(1), U32(0), U32(0)),
                DirEntryOf([name |-> Bytes("FileHeader"), name_len |-> name_len],
                           2, NoEntry, NoEntry, NoEntry, U32(2), U32(5)) >>,
             <<U32(1), EndOfChain, EndOfChain>>,
             <<SectorFill(1, 128)>>)

\* The file of the stream FileHeader, laid out in 128-byte sectors, with
\* another sector-size exponent in its header (offset 30).
SmallPowers == {0, 6, 9}

WithExponent(file, power) ==
    SubSeq(file, 1, 30) \o U16(power) \o SubSeq(file, 33, Len(file))

OleExponentFile(power) == WithExponent(OleNameFile(20), power)

\* Three sectors after the directory; with the chain "far" as many as it
\* takes for sector 109, the first without an entry in the FAT, to be there.
OleWhole(d) ==
    IF d.chain = "scattered" THEN OleScatteredFile
    ELSE IF d.chain = "name" THEN OleNameFile(d.size)
    ELSE IF d.chain = "exponent" THEN OleExponentFile(d.power) ELSE
    BuildOle(d.power, OleEntries(d), OleFat(d),
             [k \in 1..(IF d.chain = "far" THEN 110 - DirSectors(d.power) ELSE 3) |->
                 SectorFill(k, 2^(d.power))])

\* keep < 0 keeps every byte; flip > 0 changes the byte at that position.
OleFile(d) ==
    LET whole == OleWhole(d)
        kept == IF d.keep < 0 THEN whole ELSE SubSeq(whole, 1, d.keep)
    IN  SubSeq([i \in 1..Len(kept) |->
                   IF i = d.flip THEN (kept[i] + 1) % 256 ELSE kept[i]], 1, Len(kept))

OleSound ==
    {[power |-> p, root |-> r, chain |-> c, second |-> s, size |-> z,
      keep |-> -1, flip |-> 0] :
        p \in OlePowers, r \in OleRoots, c \in OleChains, s \in OleSeconds,
        z \in UNION {OleSizes(q) : q \in OlePowers}}

OleDamaged ==
    {[power |-> 7, root |-> "", chain |-> "one", second |-> "none", size |-> 5,
      keep |-> k, flip |-> f] :
        k \in {0, 3, 7, 8, 511, 512, -1}, f \in 0..9} 

\* A file in which the chain of stream A goes on to sector 109, and the file
\* with the scattered directory.
OleFar ==
    {[power |-> 7, root |-> "", chain |-> c, second |-> "none", size |-> 5,
      keep |-> -1, flip |-> 0] : c \in {"far", "scattered"}}

\* The files with one stream and a declared name length.
OleNamed ==
    {[power |-> 7, root |-> "", chain |-> "name", second |-> "none", size |-> n,
      keep |-> -1, flip |-> 0] : n \in NameLens}

\* The files with another sector-size exponent.
OleExponents ==
    {[power |-> p, root |-> "", chain |-> "exponent", second |-> "none", size |-> 20,
      keep |-> -1, flip |-> 0] : p \in SmallPowers}

OleInputs ==
    {d \in OleSound : d.size \in OleSizes(d.power)} \cup OleDamaged \cup OleFar
    \cup OleNamed \cup OleExponents

OleNames ==
    {Bytes("A"), Bytes("B"), Bytes("R/A"), Bytes("S/A"), Bytes("R/S/A"), Bytes("S"),
     Bytes("FileHeader"), Bytes("FileHeader") \o <<0>>}

OleEntryIds == {U32(0), U32(1), U32(2), U32(3), U32(4), U32(65536), NoEntry}

OleSectorIds ==
    {U32(0), U32(2), U32(4), U32(5), U32(109), U32(200), EndOfChain, NoEntry}

InitOle ==
    /\ ole_in \in OleInputs
    /\ ole = <<>>
    /\ ole_ls = <<>>
    /\ ole_n = 0
    /\ ole_call = <<>>
    /\ IdleRec
    /\ IdleZip
    /\ IdleDoc
    /\ IdleWr
    /\ IdleRun

Opened == ole # <<>> /\ ole[1].ok

\* Ole2::parse(data)
OleParse ==
    /\ ole_in # <<>>
    /\ ole = <<>>
    /\ ole' = <<Ole2_parse(OleFile(ole_in))>>
    /\ ole_ls' = ListStart
    /\ UNCHANGED <<ole_in, ole_n, ole_call, ole_others>>

\* list_streams, one turn of its loop at a time
OleListStep ==
    /\ Opened
    /\ ole_call = <<>>
    /\ ole_ls.ret = <<>>
    /\ ole_n < MaxVisits
    /\ ole_ls' = ListStep(ole[1].val, ole_ls)
    /\ ole_n' = ole_n + 1
    /\ UNCHANGED <<ole_in, ole, ole_call, ole_others>>

Call(op, arg, ret) == <<[op |-> op, arg |-> arg, ret |-> ret]>>

OleGetStream ==
    /\ Opened
    /\ ole_n = 0
    /\ ole_call = <<>>
    /\ \E name \in OleNames :
          ole_call' = Call("get_stream", name, get_stream(ole[1].val, name))
    /\ UNCHANGED <<ole_in, ole, ole_ls, ole_n, ole_others>>

OleReadDirEntry ==
    /\ Opened
    /\ ole_n = 0
    /\ ole_call = <<>>
    /\ \E entry_id \in OleEntryIds :
          ole_call' = Call("read_dir_entry", entry_id,
                           read_dir_entry(ole[1].val, entry_id))
    /\ UNCHANGED <<ole_in, ole, ole_ls, ole_n, ole_others>>

OleReadFatChain ==
    /\ Opened
    /\ ole_n = 0
    /\ ole_call = <<>>
    /\ \E sector_id \in OleSectorIds, max_sectors \in {0, 1, 2, UsizeMax} :
          ole_call' = Call("read_fat_chain", <<sector_id, max_sectors>>,
                           read_fat_chain(ole[1].val, sector_id, max_sectors))
    /\ UNCHANGED <<ole_in, ole, ole_ls, ole_n, ole_others>>

NextOle ==
    OleParse \/ OleListStep \/ OleGetStream \/ OleReadDirEntry \/ OleReadFatChain

SpecOle == InitOle /\ [][NextOle]_vars

----------------------------------------------------------------------------
(* Files for the conversion: buffers that are no document, and HWP files    *)
(* with 128-byte sectors holding some of FileHeader, DocInfo and the        *)
(* sections of BodyText, one sector each.                                   *)

MaxSections == 2

RECURSIVE Prefixes(_)
Prefixes(b) == IF b = <<>> THEN {<<>>} ELSE {b} \cup Prefixes(SubSeq(b, 1, Len(b) - 1))

Flips(b) == {[b EXCEPT ![i] = (@ + 1) % 256] : i \in 1..Len(b)}

RawInputs ==
    {<<1, 2, 3, 4, 5>>, <<0, 0, 0, 0>>}
    \cup Prefixes(Ole2Signature) \cup Prefixes(ZipSignature)
    \cup Flips(Ole2Signature) \cup Flips(ZipSignature)
    \cup {ZipSignature \o <<20, 0>>, Pad(ZipSignature, 512),
          Pad(Ole2Signature, 511), Pad(Ole2Signature, 512),
          SubSeq(Ole2Signature, 1, 4) \o ZipSignature}

Utf16(text) == Utf16Bytes(Bytes(text))

\* The DocInfo streams: records as parse_docinfo reads them.
DocInfoStream(kind) ==
    CASE kind = "font" ->
            EncodeHeaderWord(19, 0, 8) \o Utf16("AB") \o <<0, 0, 0, 0>>
      [] kind = "shapes" ->
            EncodeHeaderWord(19, 0, 4) \o Utf16("A&")
            \o EncodeHeaderWord(21, 0, 0)
            \o EncodeHeaderWord(16, 0, 4) \o <<1, 2, 3, 4>>
            \o EncodeHeaderWord(25, 1, 0)
            \o EncodeHeaderWord(19, 0, 4) \o <<233, 0, 61, 216>>
            \o EncodeHeaderWord(26, 0, 0)
            \o EncodeHeaderWord(20, 0, 0)
            \o EncodeHeaderWord(21, 0, 0)
      [] kind = "cut" -> EncodeHeaderWord(19, 0, 200) \o Utf16("AB")
      [] kind = "odd" -> EncodeHeaderWord(19, 0, 1) \o <<65>>
      [] kind = "none" -> <<>>

SectionStream(kind, index) ==
    IF kind = "cut" \/ (kind = "late" /\ index > 0)
    THEN EncodeHeaderWord(66, 0, 200) \o <<index>>
    ELSE EncodeHeaderWord(66, 0, 4) \o <<index, 0, 0, 0>> \o EncodeHeaderWord(67, 1, 0)

FileHeaderStream == Bytes("HWP Document File") \o Zeros(15)

\* h is [root, header, nul, docinfo, body, sections]: the name of the root
\* entry, whether FileHeader is there, whether the declared name lengths
\* count the terminating NUL, the kind of DocInfo, the kind of the section
\* streams, and the indices of the sections that are there.  With the body
\* "loop" the FAT entry of every section's sector names that sector.
HwpNamed(h, text) ==
    [name |-> Bytes(text), name_len |-> 2 * Len(text) + (IF h.nul THEN 2 ELSE 0)]

HwpTops(h) ==
    (IF h.header THEN <<"FileHeader">> ELSE <<>>)
    \o (IF h.docinfo # "none" THEN <<"DocInfo">> ELSE <<>>)
    \o (IF h.sections # <<>> THEN <<"BodyText">> ELSE <<>>)

HwpStreams(h) ==
    (IF h.header THEN <<FileHeaderStream>> ELSE <<>>)
    \o (IF h.docinfo # "none" THEN <<DocInfoStream(h.docinfo)>> ELSE <<>>)
    \o [j \in 1..Len(h.sections) |-> SectionStream(h.body, h.sections[j])]

HwpEntries(h) ==
    LET tops == HwpTops(h)
        T == Len(tops)
        S == Len(h.sections)
        first == 1 + T + S
        streams == HwpStreams(h)
        top(i) ==
            IF tops[i] = "BodyText"
            THEN DirEntryOf(HwpNamed(h, tops[i]), 1, NoEntry,
                            IF i < T THEN U32(i + 1) ELSE NoEntry,
                            U32(T + 1), U32(0), U32(0))
            ELSE DirEntryOf(HwpNamed(h, tops[i]), 2, NoEntry,
                            IF i < T THEN U32(i + 1) ELSE NoEntry,
                            NoEntry, U32(first + i - 1), U32(Len(streams[i])))
        section(j) ==
            DirEntryOf([name |-> Bytes("Section") \o Dec(h.sections[j]),
                        name_len |-> 16 + (IF h.nul THEN 2 ELSE 0)],
                       2, NoEntry,
                       IF j < S THEN U32(T + j + 1) ELSE NoEntry,
                       NoEntry, U32(first + Len(streams) - S + j - 1),
                       U32(Len(streams[Len(streams) - S + j])))
    IN  << DirEntryOf(HwpNamed(h, h.root), 5, NoEntry, NoEntry,
                      IF T > 0 THEN U32(1) ELSE NoEntry, U32(0), U32(0)) >>
        \o [i \in 1..T |-> top(i)]
        \o [j \in 1..S |-> section(j)]

HwpFile(h) ==
    LET entries == HwpEntries(h)
        streams == HwpStreams(h)
        looped == IF h.body = "loop" THEN Len(h.sections) ELSE 0
    IN  BuildOle(7, entries,
                 [i \in 1..(Len(entries) + Len(streams)) |->
                     IF i < Len(entries) THEN U32(i)
                     ELSE IF i > Len(entries) + Len(streams) - looped THEN U32(i - 1)
                     ELSE EndOfChain],
                 [k \in 1..Len(streams) |-> Pad(streams[k], 128)])

SectionLists ==
    {<<>>, <<1>>} \cup {[j \in 1..k |-> j - 1] : k \in 1..MaxSections}

HwpWhole ==
    {[root |-> "", header |-> TRUE, nul |-> FALSE, docinfo |-> d, body |-> "records",
      sections |-> s] : d \in {"none", "font", "shapes"}, s \in SectionLists}

HwpBroken ==
    {[root |-> "", header |-> TRUE, nul |-> FALSE, docinfo |-> d, body |-> "records",
      sections |-> <<0>>] : d \in {"cut", "odd"}}
    \cup {[root |-> "", header |-> TRUE, nul |-> FALSE, docinfo |-> "font",
           body |-> "cut", sections |-> s] : s \in SectionLists \ {<<>>}}
    \cup {[root |-> "", header |-> TRUE, nul |-> FALSE, docinfo |-> "font",
           body |-> "late", sections |-> s] : s \in {<<0, 1>>, <<0, 2>>}}
    \cup {[root |-> "", header |-> TRUE, nul |-> FALSE, docinfo |-> "font",
           body |-> "loop", sections |-> s] : s \in {<<0>>, <<1>>}}
    \cup {[root |-> r, header |-> e, nul |-> n, docinfo |-> "font", body |-> "records",
           sections |-> <<0>>] :
             r \in {"", "Root Entry"}, e \in BOOLEAN, n \in BOOLEAN}

RunInputs == RawInputs \cup {HwpFile(h) : h \in HwpWhole \cup HwpBroken}

Init ==
    /\ file_data \in RunInputs
    /\ pc = "validate"
    /\ run_format = <<>>
    /\ run_doc = <<>>
    /\ run_warnings = <<>>
    /\ run_result = <<>>
    /\ IdleRec
    /\ IdleZip
    /\ IdleOle
    /\ IdleDoc
    /\ IdleWr

\* validate_and_convert, lines 21 to 33
RunValidate ==
    /\ pc = "validate"
    /\ \E r \in {Validate(file_data)} :
           IF r.ok
           THEN /\ run_format' = <<r.val.format>>
                /\ run_warnings' = r.val.warnings
                /\ pc' = "parse"
                /\ UNCHANGED run_result
           ELSE /\ run_result' = <<r>>
                /\ pc' = "done"
                /\ UNCHANGED <<run_format, run_warnings>>
    /\ UNCHANGED <<file_data, run_doc, run_others>>

\* lines 36 to 43
RunParse ==
    /\ pc = "parse"
    /\ \E r \in {ParseDocument(file_data, run_format[1], run_warnings)} :
           IF r.ok
           THEN /\ run_doc' = <<r.val.doc>>
                /\ run_warnings' = r.val.warnings
                /\ pc' = "convert"
                /\ UNCHANGED run_result
           ELSE /\ run_result' = <<r>>
                /\ pc' = "done"
                /\ UNCHANGED <<run_doc, run_warnings>>
    /\ UNCHANGED <<file_data, run_format, run_others>>

\* lines 46 to 52
RunConvert ==
    /\ pc = "convert"
    /\ run_result' = <<Convert(run_doc[1], run_warnings)>>
    /\ pc' = "done"
    /\ UNCHANGED <<file_data, run_format, run_doc, run_warnings, run_others>>

Next == RunValidate \/ RunParse \/ RunConvert

Spec == Init /\ [][Next]_vars

-----------------------------------------------------------------------------
(* DocInfo streams for parse_docinfo, one turn of its loop at a time: up to *)
(* MaxDocRecords records of the five dispatched tags and of tags that are   *)
(* not dispatched, with payloads of even and odd length, the last record    *)
(* cut short or not.                                                        *)

MaxDocRecords == 2

DocTags == {19, 20, 21, 25, 26, 0, 8, 16, 1023}

\* Face names: none, "AB" and two NULs, three bytes, one NUL, and "A", a NUL
\* and a high surrogate alone.
FacePayloads ==
    { <<>>,
      Utf16("AB") \o <<0, 0, 0, 0>>,
      <<65, 0, 66>>,
      <<0, 0>>,
      <<65, 0, 0, 0, 61, 216>> }

OtherPayloads == { <<>>, <<1, 2, 3>> }

DocCuts == {0, 1}

DocRecords ==
    {[tagid |-> 19, payload |-> p] : p \in FacePayloads}
    \cup {[tagid |-> t, payload |-> p] : t \in DocTags \ {19}, p \in OtherPayloads}

DocInputs ==
    {[recs |-> rs_, cut |-> c] :
        rs_ \in SeqsUpTo(DocRecords, MaxDocRecords), c \in DocCuts}

RECURSIVE DocEncode(_)
DocEncode(recs) ==
    IF recs = <<>> THEN <<>>
    ELSE EncodeHeaderWord(Head(recs).tagid, 0, Len(Head(recs).payload))
         \o Head(recs).payload \o DocEncode(Tail(recs))

DocBuffer(in) == SubSeq(DocEncode(in.recs), 1, Len(DocEncode(in.recs)) - in.cut)

InitDoc ==
    /\ IdleRec
    /\ IdleZip
    /\ IdleOle
    /\ IdleWr
    /\ IdleRun
    /\ di_in \in {in \in DocInputs : in.cut <= Len(DocEncode(in.recs))}
    /\ di_stream = RecordStream_new(DocBuffer(di_in))
    /\ di_doc = Document_new
    /\ di_seen = <<>>
    /\ di_ret = <<>>

\* One turn of while let Some(record) = stream.next_record()? { match ... }
DocInfoTurn(next) ==
    /\ di_stream' = next.stream
    /\ IF ~next.ret.ok
       THEN di_ret' = <<next.ret>> /\ UNCHANGED <<di_doc, di_seen>>
       ELSE IF next.ret.val = None
       THEN di_ret' = <<Ok(<<>>)>> /\ UNCHANGED <<di_doc, di_seen>>
       ELSE \E after \in {DocInfoRecord(di_doc, next.ret.val)} :
              /\ di_seen' = Append(di_seen, next.ret.val)
              /\ IF after.ok
                 THEN di_doc' = after.val /\ UNCHANGED di_ret
                 ELSE di_ret' = <<after>> /\ UNCHANGED di_doc

DocInfoNext ==
    /\ di_ret = <<>>
    /\ \E next \in {RecordStream_next_record(di_stream)} : DocInfoTurn(next)
    /\ UNCHANGED <<di_in, di_others>>

NextDoc == DocInfoNext

SpecDoc == InitDoc /\ [][NextDoc]_vars

-----------------------------------------------------------------------------
(* Documents for the ODT writer: fonts and one paragraph with one text run, *)
(* or one table of up to MaxCells cells, some of them in rows the table     *)
(* does not have, some holding a paragraph or a table of their own.         *)

MaxFonts == 2
MaxCells == 3

WrFonts == {Bytes("Arial"), Bytes("A&B"), Bytes("x\"'<>")}

WrTexts == {<<>>, Bytes("a"), Bytes("a&b"), Bytes("<x>"), Bytes("\"q'")}

Paragraph(style_id, inlines) ==
    [kind |-> "Paragraph", style_id |-> style_id, inlines |-> inlines]

TextRun(char_shape_id, text) ==
    [kind |-> "Text", char_shape_id |-> char_shape_id, text |-> text]

TableCell(row, content) == [row |-> row, col |-> 0, content |-> content]

Table(id, rows, cells) == [kind |-> "Table", id |-> id, rows |-> rows, cells |-> cells]

InnerTable ==
    Table(9, 1, <<TableCell(0, <<Paragraph(3, <<>>)>>), TableCell(1, <<Paragraph(4, <<>>)>>)>>)

CellContents == {<<>>, <<Paragraph(1, <<>>)>>, <<InnerTable, Paragraph(2, <<>>)>>}

TableRows == 0..2

WrCells == {TableCell(r, c) : r \in TableRows, c \in CellContents}

WrTables == {Table(1, rows, cells) : rows \in TableRows, cells \in SeqsUpTo(WrCells, MaxCells)}

OneSection(blocks) == <<[Section_new EXCEPT !.blocks = blocks]>>

TextDocs ==
    {[Document_new EXCEPT
        !.fonts = fonts,
        !.char_shapes = <<CharShape_new(0)>>,
        !.para_shapes = <<ParaShape_new(0)>>,
        !.sections = OneSection(<<Paragraph(0, <<TextRun(0, text),
                                                 [kind |-> "Field", field |-> "Date"]>>)>>)] :
        fonts \in SeqsUpTo(WrFonts, MaxFonts), text \in WrTexts}

TableDocs ==
    {[Document_new EXCEPT !.sections = OneSection(<<[kind |-> "Shape"], table>>)] :
        table \in WrTables}

InitWr ==
    /\ IdleRec
    /\ IdleZip
    /\ IdleOle
    /\ IdleDoc
    /\ IdleRun
    /\ wr_doc \in TextDocs \cup TableDocs
    /\ wr_content = <<>>
    /\ wr_styles = <<>>

\* generate_odt, step 3
WrContent ==
    /\ wr_content = <<>>
    /\ wr_content' = <<generate_content_xml(wr_doc)>>
    /\ UNCHANGED <<wr_doc, wr_styles, wr_others>>

\* generate_odt, step 4
WrStyles ==
    /\ wr_content # <<>> /\ wr_content[1].ok
    /\ wr_styles = <<>>
    /\ wr_styles' = <<generate_styles_xml(wr_doc)>>
    /\ UNCHANGED <<wr_doc, wr_content, wr_others>>

NextWr == WrContent \/ WrStyles

SpecWr == InitWr /\ [][NextWr]_vars

----------------------------------------------------------------------------
(* Properties of the record decoder *)

LastRet == rs_ret[1]
Called == rs_ret # <<>>
Yielded(r) == r.ok /\ r.val # None
NoMore(r) == r.ok /\ r.val = None

ExpectedRecord(d) ==
    [tagid |-> d.tagid, level |-> d.level, size |-> U32(d.size),
     payload |-> PayloadOf(d)]

Fields(r) ==
    [tagid |-> r.tagid, level |-> r.level, size |-> r.size, payload |-> r.payload]

\* C7: on a buffer that is the concatenation of k well-formed records,
\* next_record never returns an error, the records yielded so far are the
\* first records of the buffer with their tag, level, size and payload, the
\* cursor stands right after them, and "no more" is returned only after all
\* k records, with the cursor at the buffer length.
C7_IteratorTotality ==
    RecWellFormed(rec_in) =>
        /\ Called => LastRet.ok
        /\ Len(rs_out) <= Len(rec_in.recs)
        /\ \A i \in 1..Len(rs_out) : Fields(rs_out[i]) = ExpectedRecord(rec_in.recs[i])
        /\ rs.pos = Len(EncodeAll(SubSeq(rec_in.recs, 1, Len(rs_out))))
        /\ (Called /\ NoMore(LastRet)) =>
               /\ Len(rs_out) = Len(rec_in.recs)
               /\ rs.pos = Len(rs.data)

C7_Witness ==
    /\ RecWellFormed(rec_in)
    /\ Len(rec_in.recs) = 2
    /\ rec_in.recs[1].ext /\ ~rec_in.recs[2].ext
    /\ rec_in.recs[1].size = 1
    /\ Called /\ NoMore(LastRet)
    /\ Len(rs_out) = 2

\* The bytes left at cursor pos do not hold a whole record: fewer than 4, or
\* fewer than 8 under a 12-bit size of 4095, or fewer than the header and
\* the declared payload.
Truncated(data, pos) ==
    LET left == Len(data) - pos
        size12 == (data[pos + 3] \div 16) + 16 * data[pos + 4]
    IN  /\ left > 0
        /\ \/ left < 4
           \/ size12 < 4095 /\ left < 4 + size12
           \/ size12 = 4095 /\ left < 8
           \/ size12 = 4095 /\ left >= 8 /\
                  \/ data[pos + 8] >= 128
                  \/ left < 8 + WordNat(SubSeq(data, pos + 5, pos + 8))

\* C8: a call of next_record returns "no more" only with the cursor at the
\* end of the buffer, returns ParseError (leaving the cursor) when bytes
\* remain that do not hold a whole header and payload, and a record it
\* yields has a payload of exactly its declared size.
C8_StrictTruncation ==
    [][LET r == rs_ret'[1]
       IN  /\ NoMore(r) => rs.pos = Len(rs.data)
           /\ Truncated(rs.data, rs.pos) =>
                  ~r.ok /\ r.kind = "ParseError" /\ rs' = rs
           /\ Yielded(r) =>
                  ~IsBig(r.val.size) /\ Len(r.val.payload) = WordNat(r.val.size)]_vars

C8_Witness ==
    /\ Called /\ ~LastRet.ok /\ LastRet.kind = "ParseError"
    /\ Len(rs_out) = 1
    /\ remaining(rs) \in 4..7
    /\ SizeBitsOf(read_u32_le(rs.data, rs.pos)) = 4095

\* The number held by width bits of a word from bit number from (0 is the
\* least significant).
RECURSIVE BitField(_, _, _)
BitField(bits, from, width) ==
    IF width = 0 THEN 0
    ELSE bits[from + 1] + 2 * BitField(bits, from + 1, width - 1)

\* The header at the position of the stream, where four bytes are left: its
\* three bit fields, the size that holds, and the bytes the header takes.
HeaderAt(s) ==
    LET rest == Slice(s.data, s.pos, Len(s.data))
        bits == WordBits(SubSeq(rest, 1, 4))
        size12 == BitField(bits, 20, 12)
    IN  [rest |-> rest,
         tagid |-> BitField(bits, 0, 10),
         level |-> BitField(bits, 10, 10),
         size12 |-> size12,
         extended |-> size12 = 4095,
         size |-> IF size12 = 4095 /\ Len(rest) >= 8 THEN SubSeq(rest, 5, 8)
                  ELSE U32(size12),
         bytes |-> IF size12 = 4095 THEN 8 ELSE 4]

\* C16: the header word w gives tagid = w mod 2^10, level = (w div 2^10) mod
\* 2^10 and a 12-bit size w div 2^20.  Below 4095 that is the size and the
\* header takes 4 bytes; at 4095 the size is the next four bytes, whatever
\* their value, and the header takes 8 bytes.  A call of next_record that
\* yields a record advances the position by the header and the size.
DecodesHeader ==
    Len(rs.data) - rs.pos >= 4 =>
       LET h == HeaderAt(rs)
           r == RecordHeader_parse(h.rest)
           ret == rs_ret'[1]
       IN  /\ IF h.extended /\ Len(h.rest) < 8
              THEN ~r.ok
              ELSE r = Ok([tagid |-> h.tagid, level |-> h.level, size |-> h.size,
                           bytes_read |-> h.bytes])
           /\ (ret.ok /\ ret.val # None) =>
                  /\ ret.val.tagid = h.tagid
                  /\ ret.val.level = h.level
                  /\ ret.val.size = h.size
                  /\ Len(ret.val.payload) = WordNat(h.size)
                  /\ rs'.pos = rs.pos + h.bytes + WordNat(h.size)

C16_HeaderDecode == [][DecodesHeader]_vars

\* A record with tagid 1023, level 1023 and the extended size 1 was yielded:
\* the position is 8 + 1.
C16_Witness ==
    /\ Len(rs_out) = 1
    /\ rec_in.recs # <<>>
    /\ rec_in.recs[1] = [tagid |-> 1023, level |-> 1023, ext |-> TRUE, size |-> 1]
    /\ rs_out[1].tagid = 1023 /\ rs_out[1].level = 1023
    /\ rs_out[1].size = U32(1)
    /\ rs.pos = 9

\* The cursor is inside the buffer and remaining() counts the bytes behind it.
CursorInBuffer ==
    /\ 0 <= position(rs) /\ position(rs) <= Len(rs.data)
    /\ remaining(rs) = Len(rs.data) - position(rs)
    /\ remaining(rs) >= 0

\* After an error the iteration is not at its end: the last item, if there
\* is one, and the item a further call of next would return are Some.
NeverEnds ==
    (Called /\ ~LastRet.ok) =>
        /\ rs_item # <<>> => rs_item[1] # None
        /\ Iterator_next(RecordStream_next_record(rs).ret) = LastRet

\* C28: in every state of a RecordStream 0 <= position() <= buffer length
\* and remaining() = buffer length - position(); a call of next_record that
\* yields a record moves the position forward by 4 or more, a call that
\* returns "no more" or an error leaves the stream as it was; after an error
\* every later call returns that same error, and Iterator::next returns it
\* as an item for ever, never None.
C28_CursorMoves ==
    [][/\ CursorInBuffer /\ CursorInBuffer'
       /\ NeverEnds /\ NeverEnds'
       /\ Yielded(rs_ret'[1]) => position(rs') >= position(rs) + 4
       /\ ~Yielded(rs_ret'[1]) => rs' = rs
       /\ (Called /\ ~LastRet.ok) => rs_ret' = rs_ret /\ rs_out' = rs_out
       /\ (Called /\ ~LastRet.ok /\ rs_item' # <<>>) => rs_item' = rs_ret]_vars

\* Iterator::next has returned the error of a record cut short, after a
\* record was yielded.
C28_Witness ==
    /\ Called /\ ~LastRet.ok
    /\ rs_item = <<LastRet>>
    /\ rs_out # <<>>
    /\ position(rs) >= 4 /\ remaining(rs) > 0

----------------------------------------------------------------------------
(* Properties of the ZIP packager, stated by reading the bytes it wrote *)

ZipDone == zip_ret # <<>>
ZipOut == zip_ret[1].val

U16At(b, off) == b[off + 1] + 256 * b[off + 2]
U32At(b, off) ==
    b[off + 1] + 256 * b[off + 2] + 65536 * b[off + 3] + 16777216 * b[off + 4]
WordAt(b, off) == SubSeq(b, off + 1, off + 4)

\* The end record is the last 22 bytes (its comment is empty).
EocdAt(b) == Len(b) - 22
CdOffset(b) == U32At(b, EocdAt(b) + 16)
CdSize(b) == U32At(b, EocdAt(b) + 12)

\* The central headers read from byte pos up to byte end, in order.
RECURSIVE ReadCentral(_, _, _)
ReadCentral(b, pos, end) ==
    IF pos + 46 > end \/ WordAt(b, pos) # <<80, 75, 1, 2>>
    THEN <<>>
    ELSE LET nlen == U16At(b, pos + 28)
             next == pos + 46 + nlen + U16At(b, pos + 30) + U16At(b, pos + 32)
         IN  << [at |-> pos, next |-> next, method |-> U16At(b, pos + 10),
                 crc |-> WordAt(b, pos + 16), csize |-> WordAt(b, pos + 20),
                 usize |-> WordAt(b, pos + 24), nlen |-> nlen,
                 offset |-> U32At(b, pos + 42),
                 name |-> SubSeq(b, pos + 47, pos + 46 + nlen)] >>
             \o ReadCentral(b, next, end)

\* The local entries read from byte pos up to byte end, in order.
RECURSIVE ReadLocal(_, _, _)
ReadLocal(b, pos, end) ==
    IF pos + 30 > end \/ WordAt(b, pos) # <<80, 75, 3, 4>>
    THEN <<>>
    ELSE LET nlen == U16At(b, pos + 26)
             dlen == U32At(b, pos + 18)
             next == pos + 30 + nlen + U16At(b, pos + 28) + dlen
         IN  << [at |-> pos, next |-> next, method |-> U16At(b, pos + 8),
                 crc |-> WordAt(b, pos + 14), csize |-> WordAt(b, pos + 18),
                 usize |-> WordAt(b, pos + 22), nlen |-> nlen,
                 name |-> SubSeq(b, pos + 31, pos + 30 + nlen),
                 data |-> SubSeq(b, pos + 31 + nlen, next)] >>
             \o ReadLocal(b, next, end)

RECURSIVE LocalBytes(_, _)
LocalBytes(entries, n) ==
    IF n = 0 THEN 0
    ELSE LocalBytes(entries, n - 1) + 30 + Len(entries[n][1]) + Len(entries[n][2])

RECURSIVE CentralBytes(_, _)
CentralBytes(entries, n) ==
    IF n = 0 THEN 0 ELSE CentralBytes(entries, n - 1) + 46 + Len(entries[n][1])

\* C4: the i-th central header records the byte position at which the i-th
\* local header (50 4B 03 04) starts, which is the sum over the earlier
\* entries of 30 + name length + data length, and the central headers name
\* the caller's entries in the caller's order; this holds of the buffers
\* after every loop iteration and of the bytes returned.
C4_CentralOffsets ==
    LET during == ReadCentral(zip_st.central, 0, Len(zip_st.central))
    IN  /\ Len(during) = zip_i
        /\ \A i \in 1..zip_i :
              /\ during[i].name = zip_in[i][1]
              /\ during[i].offset = LocalBytes(zip_in, i - 1)
              /\ WordAt(zip_st.out, during[i].offset) = <<80, 75, 3, 4>>
        /\ ZipDone =>
              LET cds == ReadCentral(ZipOut, CdOffset(ZipOut), EocdAt(ZipOut))
              IN  /\ Len(cds) = Len(zip_in)
                  /\ \A i \in 1..Len(cds) :
                        /\ cds[i].name = zip_in[i][1]
                        /\ cds[i].offset = LocalBytes(zip_in, i - 1)
                        /\ WordAt(ZipOut, cds[i].offset) = <<80, 75, 3, 4>>
                        /\ SubSeq(ZipOut, cds[i].offset + 31,
                                  cds[i].offset + 30 + cds[i].nlen) = zip_in[i][1]

C4_Witness ==
    /\ ZipDone
    /\ Len(zip_in) = 3
    /\ zip_in[1][2] = MimeType
    /\ Len(zip_in[2][1]) = 0
    /\ ReadCentral(ZipOut, CdOffset(ZipOut), EocdAt(ZipOut))[3].offset = 77 + 30

RefPoly == <<0,0,0,0,0,1,0,0, 1,1,0,0,0,0,0,1, 0,0,0,1,1,1,0,1, 1,0,1,1,0,1,1,1>>

RefStep(reg, bit) ==
    IF reg[1] = bit
    THEN Tail(reg) \o <<0>>
    ELSE SubSeq([i \in 1..32 |-> IF i < 32 THEN (reg[i + 1] + RefPoly[i]) % 2
                                          ELSE RefPoly[32]], 1, 32)

RefBit(byte, k) == (byte \div 2^k) % 2

RefByte(reg, byte) ==
    RefStep(RefStep(RefStep(RefStep(RefStep(RefStep(RefStep(RefStep(reg,
        RefBit(byte, 0)), RefBit(byte, 1)), RefBit(byte, 2)), RefBit(byte, 3)),
        RefBit(byte, 4)), RefBit(byte, 5)), RefBit(byte, 6)), RefBit(byte, 7))

RECURSIVE RefLoop(_, _, _, _)
RefLoop(data, lo, hi, reg) ==
    IF lo > hi THEN reg
    ELSE IF lo = hi THEN RefByte(reg, data[lo])
    ELSE LET mid == (lo + hi) \div 2
             left == RefLoop(data, lo, mid, reg)
         IN  IF Len(left) = 32 THEN RefLoop(data, mid + 1, hi, left) ELSE left

RefCrc32(data) ==
    LET reg == RefLoop(data, 1, Len(data), [i \in 1..32 |-> 1])
        byte(j) == (1 - reg[8*j + 1]) + 2 * (1 - reg[8*j + 2]) + 4 * (1 - reg[8*j + 3])
                   + 8 * (1 - reg[8*j + 4]) + 16 * (1 - reg[8*j + 5])
                   + 32 * (1 - reg[8*j + 6]) + 64 * (1 - reg[8*j + 7])
                   + 128 * (1 - reg[8*j + 8])
    IN  <<byte(0), byte(1), byte(2), byte(3)>>

\* C6: the CRC fields of the local and of the central header of every entry
\* are the standard CRC-32 of the entry's data, which is 0x3610A686 for
\* "hello" and 0 for no data, and both size fields of both headers are the
\* data length.
C6_CrcFields ==
    ZipDone =>
        LET b == ZipOut
            locals == ReadLocal(b, 0, CdOffset(b))
            cds == ReadCentral(b, CdOffset(b), EocdAt(b))
        IN  /\ Len(locals) = Len(zip_in) /\ Len(cds) = Len(zip_in)
            /\ \A i \in 1..Len(zip_in) :
                  LET data == zip_in[i][2]
                  IN  /\ locals[i].data = data
                      /\ locals[i].crc = RefCrc32(data)
                      /\ cds[i].crc = RefCrc32(data)
                      /\ data = Bytes("hello") => locals[i].crc = <<134, 166, 16, 54>>
                      /\ data = <<>> => locals[i].crc = <<0, 0, 0, 0>>
                      /\ locals[i].csize = U32(Len(data))
                      /\ locals[i].usize = U32(Len(data))
                      /\ cds[i].csize = U32(Len(data))
                      /\ cds[i].usize = U32(Len(data))

C6_Witness ==
    /\ ZipDone
    /\ Len(zip_in) = 2
    /\ zip_in[1][2] = Bytes("hello")
    /\ zip_in[2][2] = <<>>
    /\ WordAt(ZipOut, 14) = <<134, 166, 16, 54>>

----------------------------------------------------------------------------
(* Properties of the OLE2 container *)

OleData == OleFile(ole_in)
Parsed == ole # <<>>
LastCall == ole_call[1]
CalledAs(op) == ole_call # <<>> /\ LastCall.op = op

\* C9: Ole2Header::parse rejects a buffer shorter than 512 bytes with
\* InvalidFormat, also when it starts with the signature; it rejects a
\* buffer of at least 512 bytes whose first 8 bytes are not the signature
\* with InvalidSignature; it accepts every other buffer with a FAT of 109
\* entries.  Ole2::parse returns the same error or wraps the same header.
C9_HeaderParse ==
    Parsed =>
        LET r == Ole2Header_parse(OleData)
            signed == Len(OleData) >= 8 /\ SubSeq(OleData, 1, 8) = Ole2Signature
        IN  /\ Len(OleData) < 512 => ~r.ok /\ r.kind = "InvalidFormat"
            /\ Len(OleData) >= 512 /\ ~signed => ~r.ok /\ r.kind = "InvalidSignature"
            /\ Len(OleData) >= 512 /\ signed => r.ok /\ Len(r.val.fat) = 109
            /\ IF r.ok
               THEN ole[1] = Ok([header |-> r.val, data |-> OleData])
               ELSE ole[1] = r

C9_Witness ==
    /\ Parsed
    /\ Len(OleData) = 511
    /\ SubSeq(OleData, 1, 8) = Ole2Signature
    /\ ~ole[1].ok
    /\ ole[1].kind = "InvalidFormat"

\* The entry get_stream settles on: the first of list_streams with the path.
FoundEntry(self, name) ==
    LET streams == list_streams(self).val
        first == CHOOSE i \in 1..Len(streams) :
                    /\ streams[i][1] = name
                    /\ \A j \in 1..(i - 1) : streams[j][1] # name
    IN  streams[first][2]

\* C10: the bytes get_stream returns for a stream are the bytes of the FAT
\* chain from the entry's start_sector cut to the entry's stream_size: never
\* longer than stream_size, without the padding of the last sector.
C10_CutToStreamSize ==
    (CalledAs("get_stream") /\ LastCall.ret.ok) =>
        LET entry == FoundEntry(ole[1].val, LastCall.arg)
            chain == read_fat_chain(ole[1].val, entry.start_sector, UsizeMax).val
            size == Lo(entry.stream_size)
        IN  Hi(entry.stream_size) = 0 =>
               /\ Len(LastCall.ret.val) <= size
               /\ LastCall.ret.val =
                     SubSeq(chain, 1, IF Len(chain) < size THEN Len(chain) ELSE size)

\* The paths relative to the root storage: the walk of the directory from
\* the root's child, every sibling with the prefix of its parent and every
\* child of a storage with the storage's path; todo holds <<prefix, entry
\* id>> pairs, out the <<path, entry id>> pairs of the streams met so far.
RECURSIVE RelativeWalk(_, _, _, _)
RelativeWalk(self, todo, out, fuel) ==
    IF todo = <<>> \/ fuel = 0 THEN out
    ELSE LET prefix == Head(todo)[1]
             read == read_dir_entry(self, Head(todo)[2])
             entry == read.val
             here == IF prefix = <<>> THEN entry.name
                     ELSE prefix \o <<47>> \o entry.name
             pointers ==
                 << <<entry.entry_type \in {1, 5}, here, entry.child>>,
                    <<TRUE, prefix, entry.right_sibling>>,
                    <<TRUE, prefix, entry.left_sibling>> >>
             more == SelectSeq(pointers, LAMBDA x : x[1] /\ x[3] # NoEntry)
         IN  IF ~read.ok THEN RelativeWalk(self, Tail(todo), out, fuel - 1)
             ELSE RelativeWalk(self,
                      Tail(todo) \o [k \in 1..Len(more) |-> <<more[k][2], more[k][3]>>],
                      IF entry.entry_type = 2 THEN out \cup {<<here, Head(todo)[2]>>}
                      ELSE out,
                      fuel - 1)

RelativeStreams(self) ==
    LET root == read_dir_entry(self, U32(0))
    IN  IF ~root.ok \/ root.val.child = NoEntry THEN {}
        ELSE RelativeWalk(self, << <<<<>>, root.val.child>> >>, {}, 8)

\* C11: on a directory that list_streams reads to its end, a get_stream that
\* returns finds a path exactly when a stream has that path relative to the
\* root storage, whatever the name of the root entry, and fails with
\* NotFound otherwise.
C11_RelativeToRoot ==
    (/\ CalledAs("get_stream")
     /\ list_streams(ole[1].val).ok
     /\ ~Abnormal(LastCall.ret)) =>
        LET there == \E x \in RelativeStreams(ole[1].val) : x[1] = LastCall.arg
        IN  /\ LastCall.ret.ok <=> there
            /\ ~there => (~LastCall.ret.ok /\ LastCall.ret.kind = "NotFound")

\* The number of entries the directory can hold: the bytes of the FAT chain
\* from first_dir_sector, 128 for each entry.
DirCapacity(self) ==
    Len(read_fat_chain(self, self.header.first_dir_sector, UsizeMax).val) \div 128

\* The entries the loop of list_streams has read so far: its turns, but for
\* the turn that ended it (the queue was empty or the read failed).
Visited == IF ole_ls.ret = <<>> THEN ole_n ELSE ole_n - 1

\* C12: list_streams returns on every directory, also when the pointers of
\* the entries form a cycle, and its loop visits no more entries than the
\* directory can hold.
C12_ListTerminates ==
    Opened =>
        LET r == list_streams(ole[1].val)
        IN  /\ r.ok \/ r.kind # "never returns"
            /\ Visited <= DirCapacity(ole[1].val)

\* The entry ids a readable entry points to: its siblings, and its child
\* when it is a storage; 0xFFFFFFFF points nowhere.
PointedFrom(self, id) ==
    LET read == read_dir_entry(self, id)
    IN  IF ~read.ok THEN {}
        ELSE ({read.val.left_sibling, read.val.right_sibling}
              \cup (IF read.val.entry_type \in {1, 5} THEN {read.val.child} ELSE {}))
             \ {NoEntry}

\* The entries reachable from the given ones.
RECURSIVE ReachableFrom(_, _)
ReachableFrom(self, ids) ==
    LET more == ids \cup UNION {PointedFrom(self, id) : id \in ids}
    IN  IF more = ids THEN ids ELSE ReachableFrom(self, more)

ReachableStreams(self) ==
    {id \in ReachableFrom(self, {U32(0)}) :
        /\ read_dir_entry(self, id).ok
        /\ read_dir_entry(self, id).val.entry_type = 2}

\* C17: on a directory that list_streams reads to its end, every entry
\* reachable from entry 0 is visited once: the result holds each reachable
\* stream once, also when two pointers lead to it, and the loop reads as
\* many entries as are reachable.
C17_VisitOnce ==
    (Opened /\ list_streams(ole[1].val).ok) =>
        LET self == ole[1].val
            streams == list_streams(self).val
        IN  /\ Len(streams) = Cardinality(ReachableStreams(self))
            /\ \A i, j \in 1..Len(streams) : i # j => streams[i] # streams[j]
            /\ {streams[i][2] : i \in 1..Len(streams)}
                  = {read_dir_entry(self, id).val : id \in ReachableStreams(self)}
            /\ Visited <= Cardinality(ReachableFrom(self, {U32(0)}))

\* The sector lies entirely inside the buffer.
SectorInside(self, id) ==
    /\ Hi(id) = 0
    /\ 512 + Lo(id) * sector_size(self.header) + sector_size(self.header)
          <= Len(self.data)

\* The sectors a walk from id appends when it may append cap more: none at
\* the end-of-chain sentinel or at a sector not inside the buffer; otherwise
\* the sector, and the walk from fat[id] when the FAT has an entry for id.
RECURSIVE ChainSectors(_, _, _)
ChainSectors(self, id, cap) ==
    IF cap = 0 \/ id = EndOfChain \/ ~SectorInside(self, id) THEN <<>>
    ELSE <<Lo(id)>> \o
         (IF Lo(id) < Len(self.header.fat)
          THEN ChainSectors(self, self.header.fat[Lo(id) + 1], cap - 1)
          ELSE <<>>)

SectorBytes(self, n) ==
    SubSeq(self.data, 512 + n * sector_size(self.header) + 1,
           512 + (n + 1) * sector_size(self.header))

\* C18: a read_fat_chain that returns returns Ok: the sectors of the chain
\* s, fat[s], fat[fat[s]], ... whole and in that order, each read at 512 +
\* id * sector_size, up to the end-of-chain sentinel, a sector not inside
\* the buffer (not appended), a sector without an entry in the FAT
\* (appended) or the cap; the length is a multiple of the sector size and at
\* most cap sectors.
C18_FatChain ==
    (CalledAs("read_fat_chain") /\ ~Abnormal(LastCall.ret)) =>
        LET self == ole[1].val
            size == sector_size(self.header)
            cap == LastCall.arg[2]
            ids == ChainSectors(self, LastCall.arg[1], cap)
        IN  /\ LastCall.ret.ok
            /\ LastCall.ret.val = Flatten([k \in 1..Len(ids) |-> SectorBytes(self, ids[k])])
            /\ Len(LastCall.ret.val) % size = 0
            /\ Len(ids) <= cap
            /\ Len(LastCall.ret.val) = Len(ids) * size

\* The walk from sector 4 went on to sector 109, which is inside the buffer
\* and has no entry in the FAT: both sectors were appended.
C18_Witness ==
    /\ CalledAs("read_fat_chain")
    /\ LastCall.arg = <<U32(4), UsizeMax>>
    /\ LastCall.ret.ok
    /\ ChainSectors(ole[1].val, U32(4), UsizeMax) = <<4, 109>>
    /\ Len(LastCall.ret.val) = 256

\* C19: the walk without a cap ends for every FAT, also when the pointers
\* of sectors inside the buffer form a cycle: get_stream on a directory that
\* list_streams reads to its end, and read_fat_chain called with usize::MAX,
\* return.
C19_WalkTerminates ==
    /\ (CalledAs("get_stream") /\ list_streams(ole[1].val).ok) =>
           (LastCall.ret.ok \/ LastCall.ret.kind # "never returns")
    /\ (CalledAs("read_fat_chain") /\ LastCall.arg[2] = UsizeMax) =>
           (LastCall.ret.ok \/ LastCall.ret.kind # "never returns")

\* The directory stream: the FAT chain from first_dir_sector.
DirectoryStream(self) ==
    read_fat_chain(self, self.header.first_dir_sector, UsizeMax)

\* C20: a read_dir_entry(i) that returns gives the entry parsed from the 128
\* bytes at offset i * 128 of the directory stream, whatever the numbers of
\* the directory's sectors, and fails with ParseError when the stream does
\* not hold these bytes.
C20_DirEntryFromChain ==
    (/\ CalledAs("read_dir_entry")
     /\ ~Abnormal(LastCall.ret)
     /\ DirectoryStream(ole[1].val).ok) =>
        LET dir == DirectoryStream(ole[1].val).val
            i == Lo(LastCall.arg)
        IN  IF Hi(LastCall.arg) = 0 /\ i * 128 + 128 <= Len(dir)
            THEN LastCall.ret = DirEntry_parse(Slice(dir, i * 128, i * 128 + 128))
            ELSE ~LastCall.ret.ok /\ LastCall.ret.kind = "ParseError"

\* The entry read_dir_entry was handed: its 128 bytes, the code units of its
\* name field and its declared name length.
EntryBytes == DirectoryStream(ole[1].val).val
EntryField(i) ==
    LET bytes == Slice(EntryBytes, i * 128, i * 128 + 128)
    IN  [units |-> [k \in 1..32 |-> bytes[2 * k - 1] + 256 * bytes[2 * k]],
         name_len |-> bytes[65] + 256 * bytes[66]]

IsPrefix(a, b) == Len(a) <= Len(b) /\ SubSeq(b, 1, Len(a)) = a

\* C21: the name of an entry is decoded from its name field for every
\* declared length from 1 to 64 bytes: it is empty exactly when the declared
\* length is 0 or more than 64, and otherwise holds the first code units of
\* the field.
C21_NameLengths ==
    (/\ CalledAs("read_dir_entry")
     /\ LastCall.ret.ok
     /\ ole_in.chain = "name"
     /\ LastCall.arg = U32(1)) =>
        LET field == EntryField(1)
            name == LastCall.ret.val.name
        IN  /\ LastCall.ret.val.name_len = field.name_len
            /\ name = <<>> <=> (field.name_len = 0 \/ field.name_len > 64)
            /\ IsPrefix(name, field.units)

\* The sector-size exponent of the header accepted.
Exponent == ole[1].val.header.sector_size_power

\* C29: on a header Ole2Header::parse has accepted, whatever its sector-size
\* exponent, a call of read_dir_entry, list_streams or get_stream that ends
\* ends with Ok or with an HwpError, never with a panic; with an exponent
\* below 7 read_dir_entry returns a ParseError.
C29_AnyExponent ==
    /\ (/\ ole_call # <<>>
        /\ LastCall.op \in {"read_dir_entry", "get_stream"}
        /\ LastCall.ret # NeverReturns) =>
           /\ ~Abnormal(LastCall.ret)
           /\ (LastCall.op = "read_dir_entry" /\ Exponent < 7) =>
                 ~LastCall.ret.ok /\ LastCall.ret.kind = "ParseError"
    /\ (Parsed /\ ole[1].ok /\ ole_ls.ret # <<>>) => ~Abnormal(ole_ls.ret[1])

\* C30 as the specification states it: for a declared name length L from 1
\* to 32 the name read has ceil(L / 2) code units, the first of the name
\* field, NULs kept.
C30_NameUnitsCeil ==
    (/\ CalledAs("read_dir_entry") /\ LastCall.ret.ok
     /\ ole_in.chain = "name" /\ LastCall.arg = U32(1)
     /\ EntryField(1).name_len \in 1..32) =>
        /\ Len(LastCall.ret.val.name) = (EntryField(1).name_len + 1) \div 2
        /\ IsPrefix(LastCall.ret.val.name, EntryField(1).units)

\* The declared name length of the stream FileHeader in the file under
\* reading.
DeclaredLen == EntryField(1).name_len

\* C30: for a declared name length L from 1 to 32 the name read has
\* floor(L / 2) code units, the first of the name field, NULs kept; under
\* L = 22 the name of FileHeader ends with a NUL.  get_stream finds the
\* stream under the path "FileHeader" exactly when L is 20 or 21, and under
\* that path followed by a NUL exactly when L is 22 or 23.
C30_NameUnits ==
    /\ (/\ CalledAs("read_dir_entry") /\ LastCall.ret.ok
        /\ ole_in.chain = "name" /\ LastCall.arg = U32(1)
        /\ DeclaredLen \in 1..32) =>
           /\ Len(LastCall.ret.val.name) = DeclaredLen \div 2
           /\ IsPrefix(LastCall.ret.val.name, EntryField(1).units)
           /\ DeclaredLen = 22 => LastCall.ret.val.name = Bytes("FileHeader") \o <<0>>
    /\ (CalledAs("get_stream") /\ ole_in.chain = "name") =>
           /\ LastCall.arg = Bytes("FileHeader") =>
                 (LastCall.ret.ok <=> DeclaredLen \in {20, 21})
           /\ LastCall.arg = Bytes("FileHeader") \o <<0>> =>
                 (LastCall.ret.ok <=> DeclaredLen \in {22, 23})
           /\ ~LastCall.ret.ok => LastCall.ret.kind = "NotFound"

\* The entry with the declared length 21 has been read: ten code units.
C30_Witness ==
    /\ CalledAs("read_dir_entry") /\ LastCall.ret.ok
    /\ ole_in.chain = "name" /\ LastCall.arg = U32(1)
    /\ DeclaredLen = 21
    /\ LastCall.ret.val.name = Bytes("FileHeader")

-----------------------------------------------------------------------------
(* Properties of the DocInfo parser *)

\* The records dispatched so far, as the input describes them.
SeenRecords == [i \in 1..Len(di_seen) |-> [tagid |-> di_seen[i].tagid,
                                           payload |-> di_seen[i].payload]]

CountTag(recs, t) == Cardinality({i \in 1..Len(recs) : recs[i].tagid = t})

IdsInOrder(table) == \A i \in 1..Len(table) : table[i].id = i - 1

FontPayloads == SelectSeq(SeenRecords, LAMBDA r : r.tagid = 19)

\* C22: at every point of parse_docinfo the records dispatched are the first
\* records of the stream; char_shapes, para_shapes, styles and border_fills
\* have as many entries as records of tag 21, 25, 26 and 20 were dispatched,
\* the entry at index i has the id i, and fonts has one entry for every
\* record of tag 19, in the order of the stream, whatever the payloads,
\* empty ones included.
C22_TablesCountRecords ==
    /\ IsPrefix(SeenRecords, di_in.recs)
    /\ (di_ret # <<>> /\ di_ret[1].ok) => SeenRecords = di_in.recs
    /\ Len(di_doc.char_shapes) = CountTag(SeenRecords, 21)
    /\ Len(di_doc.para_shapes) = CountTag(SeenRecords, 25)
    /\ Len(di_doc.styles) = CountTag(SeenRecords, 26)
    /\ Len(di_doc.border_fills) = CountTag(SeenRecords, 20)
    /\ IdsInOrder(di_doc.char_shapes)
    /\ IdsInOrder(di_doc.para_shapes)
    /\ IdsInOrder(di_doc.styles)
    /\ IdsInOrder(di_doc.border_fills)
    /\ Len(di_doc.fonts) = Len(FontPayloads)
    /\ \A k \in 1..Len(FontPayloads) :
          di_doc.fonts[k] = parse_face_name(FontPayloads[k].payload).val

\* parse_docinfo has returned Ok after two styles, the first of them with an
\* empty payload.
C22_Witness ==
    /\ di_ret # <<>> /\ di_ret[1].ok
    /\ Len(di_doc.styles) = 2
    /\ di_in.recs[1].payload = <<>>

Dispatched == {19, 20, 21, 25, 26}

Catalogued == {0, 3, 4, 5, 6, 7, 9, 10, 11} \cup (16..31) \cup (50..54) \cup (61..72)

TableOf(tagid) ==
    CASE tagid = 19 -> "fonts"
      [] tagid = 20 -> "border_fills"
      [] tagid = 21 -> "char_shapes"
      [] tagid = 25 -> "para_shapes"
      [] tagid = 26 -> "styles"

Grown(before, after) ==
    Len(after) = Len(before) + 1 /\ SubSeq(after, 1, Len(before)) = before

\* The turn of the loop taken has dispatched a record.
Dispatches == Len(di_seen') = Len(di_seen) + 1

\* C23: a record whose tag is none of 19, 20, 21, 25, 26 is no error and
\* leaves fonts, char_shapes, para_shapes, styles, border_fills and sections
\* as they were; a record with one of the five tags appends one entry to its
\* own table and leaves the other tables as they were; the iterator names
\* a tag it has no name for "HWPTAG_<id>".  On the streams of one record the
\* first part is checked for every tag from 0 to 1023 in place of the tag
\* read.
C23_OtherTagsIgnored ==
    [][Dispatches =>
        LET record == di_seen'[Len(di_seen')]
        IN  /\ record.tagid \notin Dispatched => di_ret' = <<>> /\ di_doc' = di_doc
            /\ record.tagid \in Dispatched =>
                  /\ di_ret' = <<>>
                  /\ \A f \in DOMAIN di_doc :
                        IF f = TableOf(record.tagid)
                        THEN Grown(di_doc[f], di_doc'[f])
                        ELSE di_doc'[f] = di_doc[f]
            /\ record.tagid \notin Catalogued =>
                  record.tagname = "HWPTAG_" \o ToString(record.tagid)
            /\ Len(di_in.recs) = 1 =>
                  \A t \in 0..1023 :
                    /\ t \notin Dispatched =>
                          DocInfoRecord(di_doc, [record EXCEPT !.tagid = t]) = Ok(di_doc)
                    /\ t \notin Catalogued =>
                          format_tagname(t) = "HWPTAG_" \o ToString(t)
    ]_vars

\* A record of tag 1023 has been dispatched after a font name.
C23_Witness ==
    /\ Len(di_seen) = 2
    /\ di_seen[2].tagid = 1023
    /\ di_seen[2].tagname = "HWPTAG_1023"
    /\ di_doc.fonts # <<>>

\* The code units of a payload: its complete pairs of bytes.
PayloadUnits(payload) ==
    [k \in 1..(Len(payload) \div 2) |-> payload[2 * k - 1] + 256 * payload[2 * k]]

\* s is text without the NULs at its end.
TrimmedOf(s, text) ==
    /\ IsPrefix(s, text)
    /\ s # <<>> => s[Len(s)] # 0
    /\ \A i \in (Len(s) + 1)..Len(text) : text[i] = 0

\* The turn of the loop taken has dispatched a record of tag 19.
DispatchesFont == Dispatches /\ di_seen'[Len(di_seen')].tagid = 19

\* C24 as the specification states it: the name appended for a record of
\* tag 19 is its payload decoded as UTF-16LE code units, the NULs at the end
\* removed, whatever the payload.
C24_FaceNameDecoded ==
    [][DispatchesFont =>
        /\ di_ret' = <<>>
        /\ Grown(di_doc.fonts, di_doc'.fonts)
        /\ TrimmedOf(di_doc'.fonts[Len(di_doc'.fonts)],
                     from_utf16_lossy(PayloadUnits(di_seen'[Len(di_seen')].payload)))
    ]_vars

\* C24: for a record of tag 19 one name is appended to fonts and no error is
\* raised; the name is the payload decoded as UTF-16LE code units, the NULs
\* at the end removed, when the payload has an even number of bytes, and the
\* empty name when it has an odd number of bytes.
C24_FaceName ==
    [][DispatchesFont =>
        LET payload == di_seen'[Len(di_seen')].payload
            name == di_doc'.fonts[Len(di_doc'.fonts)]
        IN  /\ di_ret' = <<>>
            /\ Grown(di_doc.fonts, di_doc'.fonts)
            /\ IF Len(payload) % 2 = 0
               THEN TrimmedOf(name, from_utf16_lossy(PayloadUnits(payload)))
               ELSE name = <<>>
    ]_vars

\* The eight bytes of "AB" and two NULs have given the name "AB", and three
\* bytes the empty name.
C24_Witness ==
    /\ Len(di_seen) = 2
    /\ di_seen[1].tagid = 19 /\ di_seen[1].payload = Utf16("AB") \o <<0, 0, 0, 0>>
    /\ di_seen[2].tagid = 19 /\ di_seen[2].payload = <<65, 0, 66>>
    /\ di_doc.fonts = <<Bytes("AB"), <<>>>>

----------------------------------------------------------------------------
(* Properties of the conversion *)

Finished == run_result # <<>>
Outcome == run_result[1]
Succeeded == Finished /\ Outcome.ok
StartsWith(data, sig) == Len(data) >= Len(sig) /\ SubSeq(data, 1, Len(sig)) = sig

\* C1: on the empty buffer validate_and_convert fails with exactly the
\* message "File data is empty"; the format detection has delivered nothing.
C1_EmptyInput ==
    (file_data = <<>> /\ pc # "validate") =>
        /\ pc = "done"
        /\ Outcome = Err("String", <<"File data is empty">>)
        /\ run_format = <<>>

C1_Witness ==
    /\ file_data = <<>>
    /\ Finished
    /\ ~Outcome.ok

\* C2: detect_format returns HWP exactly for the buffers that start with the
\* 8 bytes of the OLE2 signature, HWPX exactly for those that start with
\* 50 4B 03 04, never both, and InvalidFormat for every other buffer, the
\* short ones included; the conversion goes on with the format detected and
\* fails on every non-empty buffer of the third kind.
C2_DetectFormat ==
    LET r == detect_format(file_data)
        hwp == StartsWith(file_data, Ole2Signature)
        hwpx == StartsWith(file_data, ZipSignature)
    IN  /\ (r.ok /\ r.val = "HWP") <=> hwp
        /\ (r.ok /\ r.val = "HWPX") <=> hwpx
        /\ ~(hwp /\ hwpx)
        /\ (~hwp /\ ~hwpx) => (~r.ok /\ r.kind = "InvalidFormat")
        /\ pc \in {"parse", "convert"} => (r.ok /\ run_format = <<r.val>>)
        /\ (~hwp /\ ~hwpx /\ file_data # <<>> /\ pc # "validate") =>
               /\ pc = "done"
               /\ ~Outcome.ok
               /\ Outcome.msg = <<"Invalid format: ">> \o r.msg

C2_Witness ==
    /\ file_data = <<1, 2, 3, 4, 5>>
    /\ Finished
    /\ ~Outcome.ok

EntryNames ==
    <<Bytes("mimetype"), Bytes("META-INF/manifest.xml"), Bytes("content.xml"),
      Bytes("styles.xml"), Bytes("settings.xml"), Bytes("meta.xml")>>

\* C3: the bytes of a successful conversion hold exactly six local entries,
\* named mimetype, META-INF/manifest.xml, content.xml, styles.xml,
\* settings.xml and meta.xml in this order; the local header of mimetype is
\* at byte 0, its method is 0 and its 39 bytes of data,
\* application/vnd.oasis.opendocument.text, are at offset 38.
C3_SixEntries ==
    Succeeded =>
        LET b == Outcome.val.data
            locals == ReadLocal(b, 0, CdOffset(b))
        IN  /\ Len(locals) = 6
            /\ \A i \in 1..6 : locals[i].name = EntryNames[i]
            /\ locals[6].next = CdOffset(b)
            /\ WordAt(b, 0) = <<80, 75, 3, 4>>
            /\ locals[1].at = 0
            /\ locals[1].method = 0
            /\ Len(MimeType) = 39
            /\ SubSeq(b, 38 + 1, 38 + 39) = MimeType
            /\ MimeType = Bytes("application/vnd.oasis.opendocument.text")

C3_Witness ==
    /\ Succeeded
    /\ Len(run_doc[1].fonts) = 2
    /\ Len(run_doc[1].char_shapes) = 2
    /\ Len(run_doc[1].sections) = 2

\* The stream of section k as parse_hwp looks it up, and its parse.
SectionData(self, k) == get_stream(self, Bytes("BodyText/Section") \o Dec(k))
SectionParse(self, k) == parse_bodytext(SectionData(self, k).val, Document_new)

\* The sections parse_hwp fails at: every section before is there and
\* parses, this one is there and does not.
BrokenSections(self) ==
    {k \in 0..(MaxSections + 1) :
        /\ \A j \in 0..k : SectionData(self, j).ok
        /\ \A j \in 0..(k - 1) : SectionParse(self, j).ok
        /\ ~SectionParse(self, k).ok}

\* The failure validate_and_convert returns for the error e of a stage: its
\* display string, and neither a document nor output bytes.
FailsWith(e) ==
    /\ Outcome = Err("String", Display(e))
    /\ run_doc = <<>>

\* C13: an error of Ole2::parse, of the lookup of FileHeader, of
\* parse_docinfo on the DocInfo stream or of parse_bodytext on a section
\* stream ends the conversion of an HWP file with that error's display
\* string; no document is kept and no ODT is made.
C13_ErrorPropagation ==
    (Finished /\ run_format = <<"HWP">> /\ ~Abnormal(Outcome)) =>
        LET opened == Ole2_parse(file_data)
            self == opened.val
            header == get_stream(self, Bytes("FileHeader"))
            docinfo == get_stream(self, Bytes("DocInfo"))
            info == parse_docinfo(docinfo.val, Document_new)
        IN  IF ~opened.ok THEN FailsWith(opened)
            ELSE IF ~header.ok
            THEN FailsWith(header) /\ (header.kind = "NotFound" =>
                                          Outcome.msg[1] = "Not found: ")
            ELSE IF docinfo.ok /\ ~info.ok THEN FailsWith(info)
            ELSE \A k \in BrokenSections(self) : FailsWith(SectionParse(self, k))

\* A file whose section 0 parses and whose section 1 holds a record cut short.
C13_Witness ==
    /\ Finished /\ run_format = <<"HWP">> /\ ~Outcome.ok
    /\ Ole2_parse(file_data).ok
    /\ BrokenSections(Ole2_parse(file_data).val) = {1}
    /\ Outcome.msg[1] = "Parse error: "

\* C14: a buffer that starts with 50 4B 03 04 is detected as HWPX and its
\* conversion fails with the ParseError of parse_hwpx, "HWPX parsing not yet
\* implemented"; no document is kept and no ODT is made.
C14_HwpxNotImplemented ==
    StartsWith(file_data, ZipSignature) =>
        /\ pc = "parse" => run_format = <<"HWPX">>
        /\ pc \in {"validate", "parse", "done"}
        /\ run_doc = <<>>
        /\ pc = "done" =>
               /\ run_format = <<"HWPX">>
               /\ Outcome = Err("String", <<"Parse error: ",
                                            "HWPX parsing not yet implemented">>)

C14_Witness ==
    /\ file_data = Pad(ZipSignature, 512)
    /\ Finished
    /\ ~Outcome.ok
    /\ Outcome.msg = <<"Parse error: ", "HWPX parsing not yet implemented">>

Warned(text) == \E i \in 1..Len(Outcome.val.warnings) : Outcome.val.warnings[i] = text

\* C15: a successful conversion carries the message "Conversion completed
\* successfully"; its warnings hold "Document has no sections" exactly when
\* the parsed document has no section, and are empty for a document with a
\* section and an input of at most 10,000,000 bytes; the archive has six
\* entries whatever the number of sections.
C15_Warnings ==
    Succeeded =>
        LET parsed == run_doc[1]
            b == Outcome.val.data
        IN  /\ Ok(parsed) = parse_hwp(file_data)
            /\ Outcome.val.message = "Conversion completed successfully"
            /\ Warned("Document has no sections") <=> parsed.sections = <<>>
            /\ parsed.sections = <<>> =>
                   Outcome.val.warnings = <<"Document has no sections">>
            /\ (parsed.sections # <<>> /\ Len(file_data) <= SizeLimit) =>
                   Outcome.val.warnings = <<>>
            /\ Len(ReadLocal(b, 0, CdOffset(b))) = 6

\* A file with FileHeader alone: no DocInfo, no section.
C15_Witness ==
    /\ Succeeded
    /\ run_doc[1].sections = <<>>
    /\ run_doc[1].fonts = <<>>
    /\ Outcome.val.warnings = <<"Document has no sections">>

\* The index of the first section the directory has no stream for.
Listed(self, k) ==
    \E i \in 1..Len(list_streams(self).val) :
        list_streams(self).val[i][1] = Bytes("BodyText/Section") \o Dec(k)

FirstAbsent(self) ==
    CHOOSE n \in 0..(MaxSections + 2) :
        ~Listed(self, n) /\ \A k \in 0..(n - 1) : Listed(self, k)

\* C25: parse_hwp, once FileHeader and DocInfo are read, looks the sections
\* up in increasing order and ends: with a document of as many sections as
\* the index of the first absent stream, each of them the empty section,
\* or with the error of a section before that index; a stream behind the
\* first absent one is never read.
C25_SectionLoop ==
    (Finished /\ run_format = <<"HWP">> /\ Ole2_parse(file_data).ok) =>
        LET self == Ole2_parse(file_data).val
            header == get_stream(self, Bytes("FileHeader"))
            docinfo == get_stream(self, Bytes("DocInfo"))
        IN  (/\ header.ok
             /\ ~Abnormal(docinfo)
             /\ docinfo.ok => parse_docinfo(docinfo.val, Document_new).ok) =>
                /\ ~Abnormal(Outcome)
                /\ IF run_doc # <<>>
                   THEN /\ Len(run_doc[1].sections) = FirstAbsent(self)
                        /\ \A k \in 1..Len(run_doc[1].sections) :
                              run_doc[1].sections[k] = Section_new
                   ELSE \E k \in 0..(FirstAbsent(self) - 1) :
                          /\ ~SectionParse(self, k).ok
                          /\ FailsWith(SectionParse(self, k))

-----------------------------------------------------------------------------
(* Properties of the ODT writer *)

EndsWith(data, tail) ==
    Len(data) >= Len(tail) /\ SubSeq(data, Len(data) - Len(tail) + 1, Len(data)) = tail

\* A string with & < > " ' replaced by entities, and with & < > replaced.
AttrEscape(text) ==
    Flatten([i \in 1..Len(text) |->
               CASE text[i] = 38 -> Bytes("&amp;")
                 [] text[i] = 60 -> Bytes("&lt;")
                 [] text[i] = 62 -> Bytes("&gt;")
                 [] text[i] = 34 -> Bytes("&quot;")
                 [] text[i] = 39 -> Bytes("&apos;")
                 [] OTHER -> <<text[i]>>])

TextEscape(text) ==
    Flatten([i \in 1..Len(text) |->
               CASE text[i] = 38 -> Bytes("&amp;")
                 [] text[i] = 60 -> Bytes("&lt;")
                 [] text[i] = 62 -> Bytes("&gt;")
                 [] OTHER -> <<text[i]>>])

\* The font-face declarations with the names escaped for an attribute.
EscapedFontFaces(doc) ==
    Flatten([i \in 1..Len(doc.fonts) |->
               FontFaceParts[1] \o Dec(i - 1) \o FontFaceParts[2]
               \o AttrEscape(doc.fonts[i]) \o FontFaceParts[3]])

\* The document under writing is one paragraph with a text run and a field.
HasText == Len(wr_doc.sections[1].blocks) = 1

SpanTags ==
    << Bytes("<text:span text:style-name=\"T"), Bytes("\">"), Bytes("</text:span>"),
       Bytes("<text:date/>") >>

\* The span of its text run with the text escaped for element content.
EscapedSpan ==
    LET run == wr_doc.sections[1].blocks[1].inlines[1]
    IN  SpanTags[1] \o Dec(run.char_shape_id) \o SpanTags[2]
        \o TextEscape(run.text) \o SpanTags[3]

\* The text runs are written with & < > replaced by entities.
TextRunsEscaped ==
    (wr_content # <<>> /\ HasText) =>
        /\ wr_content[1].ok
        /\ EndsWith(wr_content[1].val,
                    EscapedSpan \o SpanTags[4] \o ParagraphParts[3]
                    \o ContentTail)

\* C26: in content.xml and in styles.xml every font name stands in
\* svg:font-family with & < > " ' replaced by entities, and in content.xml
\* the text of every text run stands in its span with & < > replaced by
\* entities.
C26_Escaped ==
    /\ wr_content # <<>> =>
          /\ wr_content[1].ok
          /\ StartsWith(wr_content[1].val,
                        ContentHead \o EscapedFontFaces(wr_doc) \o ContentBody)
    /\ wr_styles # <<>> =>
          /\ wr_styles[1].ok
          /\ StartsWith(wr_styles[1].val,
                        StylesHead \o EscapedFontFaces(wr_doc) \o StylesDefault)
    /\ TextRunsEscaped

\* The document under writing holds a table.
HasTable == Len(wr_doc.sections[1].blocks) = 2

WrTable == wr_doc.sections[1].blocks[2]

\* What generate_content_xml wrote between <office:text> and </office:text>.
ContentBlocks ==
    SubSeq(wr_content[1].val,
           Len(ContentHead) + Len(EscapedFontFaces(wr_doc)) + Len(ContentBody) + 1,
           Len(wr_content[1].val) - Len(ContentTail))

\* The tags of an XML text in order: what stands from each < to the next >.
TagEnd(xml, i) ==
    CHOOSE j \in i..Len(xml) : xml[j] = 62 /\ \A k \in i..(j - 1) : xml[k] # 62

TagsAt(xml, opens) ==
    [n \in 1..Len(opens) |-> SubSeq(xml, opens[n], TagEnd(xml, opens[n]))]

TagsOf(xml) ==
    TagsAt(xml, SelectSeq([i \in 1..Len(xml) |-> i], LAMBDA i : xml[i] = 60))

\* The cells of row r, in the order of table.cells.
RowCells(table, r) == SelectSeq(table.cells, LAMBDA cell : cell.row = r)

\* The tags a block is to be written as: for a table one table-row for each
\* of the rows 0 .. rows - 1, in it one table-cell for each cell of that row,
\* in it the tags of the cell's blocks.
ParagraphTags == << Bytes("<text:p text:style-name=\"P"), Bytes("\">"), Bytes("</text:p>") >>

TableTags ==
    << Bytes("<table:table table:name=\"Table"), Bytes("\" table:style-name=\"Table1\">"),
       Bytes("</table:table>") >>

RowTags == << Bytes("<table:table-row>"), Bytes("</table:table-row>") >>

CellTags ==
    << Bytes("<table:table-cell table:value-type=\"string\">"),
       Bytes("</table:table-cell>") >>

RECURSIVE ExpectedTags(_)
ExpectedTags(block) ==
    IF block.kind = "Paragraph"
    THEN << ParagraphTags[1] \o Dec(block.style_id) \o ParagraphTags[2],
            ParagraphTags[3] >>
    ELSE IF block.kind = "Table"
    THEN << TableTags[1] \o Dec(block.id) \o TableTags[2] >>
         \o Flatten([r \in 1..block.rows |->
               << RowTags[1] >>
               \o Flatten([n \in 1..Len(RowCells(block, r - 1)) |->
                     << CellTags[1] >>
                     \o Flatten([k \in 1..Len(RowCells(block, r - 1)[n].content) |->
                           ExpectedTags(RowCells(block, r - 1)[n].content[k])])
                     \o << CellTags[2] >>])
               \o << RowTags[2] >>])
         \o << TableTags[3] >>
    ELSE <<>>

\* C27: a table is written as table.rows table-row elements, for the rows
\* 0 .. rows - 1 in increasing order; the element of row r holds one
\* table-cell for each cell whose row is r, in the order of table.cells, with
\* the cell's blocks written the same way inside it; a cell whose row is not
\* below table.rows is not written.  The writer is a function of the
\* document: no order of a hash map shows in the output.
C27_TableRows ==
    (wr_content # <<>> /\ HasTable) =>
        /\ wr_content[1].ok
        /\ StartsWith(wr_content[1].val, ContentHead \o ContentBody)
        /\ EndsWith(wr_content[1].val, ContentTail)
        /\ \A blocks \in {ContentBlocks} : \A tags \in {TagsOf(blocks)} :
              /\ tags = ExpectedTags(WrTable)
              /\ Cardinality({n \in 1..Len(tags) : tags[n] = RowTags[1]})
                 >= WrTable.rows

\* A table of two rows has been written whose cells are: one in row 2, then
\* two in row 0, the first of them holding a table.
C27_Witness ==
    /\ wr_content # <<>> /\ HasTable
    /\ WrTable.rows = 2
    /\ Len(WrTable.cells) = 3
    /\ WrTable.cells[1].row = 2
    /\ WrTable.cells[2] = TableCell(0, <<InnerTable, Paragraph(2, <<>>)>>)
    /\ WrTable.cells[3] = TableCell(0, <<Paragraph(1, <<>>)>>)

====
